---------------------------- MODULE Spec2Model ----------------------------
(***************************************************************************)
(* The reconciliation core of src/agents/reconciliation_tracer.py: the     *)
(* number extractor, the amount comparator, the verdict generator and the  *)
(* three-stage workflow Parse -> Compare -> Verdict that threads one       *)
(* ReconciliationState through them and logs each stage to a trace.        *)
(*                                                                         *)
(* Representation.                                                         *)
(*  - A Python str is a sequence of one-character strings (code points):   *)
(*    a printable ASCII character as itself, line feed and tab as "\n"     *)
(*    and "\t", every other code point as "U+XXXX" in upper-case           *)
(*    hexadecimal. The classes of characters the code tells apart          *)
(*    (decimal digits, white space, the characters repr() escapes) are     *)
(*    tables of the Unicode 14 database CPython 3.11 carries; a code       *)
(*    point that is unassigned, of private use or a surrogate is outside   *)
(*    the alphabet of the model.                                           *)
(*  - A Python float is an IEEE 754 double: a record [none, cls, neg,      *)
(*    mant, exp], cls one of "fin", "inf", "nan"; a finite double is       *)
(*    (-1)^neg * mant * 2^exp with mant an odd natural number of at most   *)
(*    53 bits, or 0 for the two zeros.  none = TRUE is Python's None.      *)
(*    Arithmetic rounds every result to the nearest double, ties to the    *)
(*    even significand, with subnormals below 2^-1022 and an infinity      *)
(*    from 2^1024 on, as the machine does.                                 *)
(*  - An argument value is a record [kind, chars, fv, err, ferr]: a str,   *)
(*    None, or an object of another type given by what its methods do      *)
(*    (see Obj and Bad).                                                   *)
(***************************************************************************)
EXTENDS Integers, Sequences, FiniteSets, TLC

VARIABLES
    pc,                \* where the call of reconcile_amounts stands
    state,             \* the ReconciliationState threaded through the workflow
    trace_data,        \* self.trace_data: trace id -> trace
    current_trace_id,  \* self.current_trace_id
    live_thinking,     \* self.live_thinking
    now,               \* the wall clock read by datetime.now(), in seconds
    args,              \* the arguments of the call of reconcile_amounts and
                       \* its local trace_id
    ret,               \* the value reconcile_amounts returned
    exc,               \* the exception travelling out of workflow.invoke,
                       \* or the one the call has raised to its caller
    got,               \* what the last call of a read accessor returned
    history,           \* the calls of reconcile_amounts made so far (a log
                       \* kept beside the program, not a field of it)
    ex_text,           \* the argument of a direct call of _extract_number
    ex_out,            \* what that call returned
    files,             \* the file system export_trace_to_json writes to
    calls              \* two callers of one shared instance: for each its
                       \* call of reconcile_amounts, with the values the
                       \* call has read and not used yet

vars == <<pc, state, trace_data, current_trace_id, live_thinking, now, args,
          ret, exc, got, history, ex_text, ex_out, files, calls>>

---------------------------------------------------------------------------
(* The character classes of the interpreter (Python 3.11, Unicode 14)      *)

\* The decimal digits (category Nd): the characters \d of the pattern of
\* line 251 matches and float() reads, in runs of ten from the zero of each
\* script to its nine.
DigitRuns ==
    <<
      <<"0", "1", "2", "3", "4", "5", "6", "7", "8", "9">>,
      <<"U+0660", "U+0661", "U+0662", "U+0663", "U+0664",
        "U+0665", "U+0666", "U+0667", "U+0668", "U+0669">>,
      <<"U+06F0", "U+06F1", "U+06F2", "U+06F3", "U+06F4",
        "U+06F5", "U+06F6", "U+06F7", "U+06F8", "U+06F9">>,
      <<"U+07C0", "U+07C1", "U+07C2", "U+07C3", "U+07C4",
        "U+07C5", "U+07C6", "U+07C7", "U+07C8", "U+07C9">>,
      <<"U+0966", "U+0967", "U+0968", "U+0969", "U+096A",
        "U+096B", "U+096C", "U+096D", "U+096E", "U+096F">>,
      <<"U+09E6", "U+09E7", "U+09E8", "U+09E9", "U+09EA",
        "U+09EB", "U+09EC", "U+09ED", "U+09EE", "U+09EF">>,
      <<"U+0A66", "U+0A67", "U+0A68", "U+0A69", "U+0A6A",
        "U+0A6B", "U+0A6C", "U+0A6D", "U+0A6E", "U+0A6F">>,
      <<"U+0AE6", "U+0AE7", "U+0AE8", "U+0AE9", "U+0AEA",
        "U+0AEB", "U+0AEC", "U+0AED", "U+0AEE", "U+0AEF">>,
      <<"U+0B66", "U+0B67", "U+0B68", "U+0B69", "U+0B6A",
        "U+0B6B", "U+0B6C", "U+0B6D", "U+0B6E", "U+0B6F">>,
      <<"U+0BE6", "U+0BE7", "U+0BE8", "U+0BE9", "U+0BEA",
        "U+0BEB", "U+0BEC", "U+0BED", "U+0BEE", "U+0BEF">>,
      <<"U+0C66", "U+0C67", "U+0C68", "U+0C69", "U+0C6A",
        "U+0C6B", "U+0C6C", "U+0C6D", "U+0C6E", "U+0C6F">>,
      <<"U+0CE6", "U+0CE7", "U+0CE8", "U+0CE9", "U+0CEA",
        "U+0CEB", "U+0CEC", "U+0CED", "U+0CEE", "U+0CEF">>,
      <<"U+0D66", "U+0D67", "U+0D68", "U+0D69", "U+0D6A",
        "U+0D6B", "U+0D6C", "U+0D6D", "U+0D6E", "U+0D6F">>,
      <<"U+0DE6", "U+0DE7", "U+0DE8", "U+0DE9", "U+0DEA",
        "U+0DEB", "U+0DEC", "U+0DED", "U+0DEE", "U+0DEF">>,
      <<"U+0E50", "U+0E51", "U+0E52", "U+0E53", "U+0E54",
        "U+0E55", "U+0E56", "U+0E57", "U+0E58", "U+0E59">>,
      <<"U+0ED0", "U+0ED1", "U+0ED2", "U+0ED3", "U+0ED4",
        "U+0ED5", "U+0ED6", "U+0ED7", "U+0ED8", "U+0ED9">>,
      <<"U+0F20", "U+0F21", "U+0F22", "U+0F23", "U+0F24",
        "U+0F25", "U+0F26", "U+0F27", "U+0F28", "U+0F29">>,
      <<"U+1040", "U+1041", "U+1042", "U+1043", "U+1044",
        "U+1045", "U+1046", "U+1047", "U+1048", "U+1049">>,
      <<"U+1090", "U+1091", "U+1092", "U+1093", "U+1094",
        "U+1095", "U+1096", "U+1097", "U+1098", "U+1099">>,
      <<"U+17E0", "U+17E1", "U+17E2", "U+17E3", "U+17E4",
        "U+17E5", "U+17E6", "U+17E7", "U+17E8", "U+17E9">>,
      <<"U+1810", "U+1811", "U+1812", "U+1813", "U+1814",
        "U+1815", "U+1816", "U+1817", "U+1818", "U+1819">>,
      <<"U+1946", "U+1947", "U+1948", "U+1949", "U+194A",
        "U+194B", "U+194C", "U+194D", "U+194E", "U+194F">>,
      <<"U+19D0", "U+19D1", "U+19D2", "U+19D3", "U+19D4",
        "U+19D5", "U+19D6", "U+19D7", "U+19D8", "U+19D9">>,
      <<"U+1A80", "U+1A81", "U+1A82", "U+1A83", "U+1A84",
        "U+1A85", "U+1A86", "U+1A87", "U+1A88", "U+1A89">>,
      <<"U+1A90", "U+1A91", "U+1A92", "U+1A93", "U+1A94",
        "U+1A95", "U+1A96", "U+1A97", "U+1A98", "U+1A99">>,
      <<"U+1B50", "U+1B51", "U+1B52", "U+1B53", "U+1B54",
        "U+1B55", "U+1B56", "U+1B57", "U+1B58", "U+1B59">>,
      <<"U+1BB0", "U+1BB1", "U+1BB2", "U+1BB3", "U+1BB4",
        "U+1BB5", "U+1BB6", "U+1BB7", "U+1BB8", "U+1BB9">>,
      <<"U+1C40", "U+1C41", "U+1C42", "U+1C43", "U+1C44",
        "U+1C45", "U+1C46", "U+1C47", "U+1C48", "U+1C49">>,
      <<"U+1C50", "U+1C51", "U+1C52", "U+1C53", "U+1C54",
        "U+1C55", "U+1C56", "U+1C57", "U+1C58", "U+1C59">>,
      <<"U+A620", "U+A621", "U+A622", "U+A623", "U+A624",
        "U+A625", "U+A626", "U+A627", "U+A628", "U+A629">>,
      <<"U+A8D0", "U+A8D1", "U+A8D2", "U+A8D3", "U+A8D4",
        "U+A8D5", "U+A8D6", "U+A8D7", "U+A8D8", "U+A8D9">>,
      <<"U+A900", "U+A901", "U+A902", "U+A903", "U+A904",
        "U+A905", "U+A906", "U+A907", "U+A908", "U+A909">>,
      <<"U+A9D0", "U+A9D1", "U+A9D2", "U+A9D3", "U+A9D4",
        "U+A9D5", "U+A9D6", "U+A9D7", "U+A9D8", "U+A9D9">>,
      <<"U+A9F0", "U+A9F1", "U+A9F2", "U+A9F3", "U+A9F4",
        "U+A9F5", "U+A9F6", "U+A9F7", "U+A9F8", "U+A9F9">>,
      <<"U+AA50", "U+AA51", "U+AA52", "U+AA53", "U+AA54",
        "U+AA55", "U+AA56", "U+AA57", "U+AA58", "U+AA59">>,
      <<"U+ABF0", "U+ABF1", "U+ABF2", "U+ABF3", "U+ABF4",
        "U+ABF5", "U+ABF6", "U+ABF7", "U+ABF8", "U+ABF9">>,
      <<"U+FF10", "U+FF11", "U+FF12", "U+FF13", "U+FF14",
        "U+FF15", "U+FF16", "U+FF17", "U+FF18", "U+FF19">>,
      <<"U+104A0", "U+104A1", "U+104A2", "U+104A3", "U+104A4",
        "U+104A5", "U+104A6", "U+104A7", "U+104A8", "U+104A9">>,
      <<"U+10D30", "U+10D31", "U+10D32", "U+10D33", "U+10D34",
        "U+10D35", "U+10D36", "U+10D37", "U+10D38", "U+10D39">>,
      <<"U+11066", "U+11067", "U+11068", "U+11069", "U+1106A",
        "U+1106B", "U+1106C", "U+1106D", "U+1106E", "U+1106F">>,
      <<"U+110F0", "U+110F1", "U+110F2", "U+110F3", "U+110F4",
        "U+110F5", "U+110F6", "U+110F7", "U+110F8", "U+110F9">>,
      <<"U+11136", "U+11137", "U+11138", "U+11139", "U+1113A",
        "U+1113B", "U+1113C", "U+1113D", "U+1113E", "U+1113F">>,
      <<"U+111D0", "U+111D1", "U+111D2", "U+111D3", "U+111D4",
        "U+111D5", "U+111D6", "U+111D7", "U+111D8", "U+111D9">>,
      <<"U+112F0", "U+112F1", "U+112F2", "U+112F3", "U+112F4",
        "U+112F5", "U+112F6", "U+112F7", "U+112F8", "U+112F9">>,
      <<"U+11450", "U+11451", "U+11452", "U+11453", "U+11454",
        "U+11455", "U+11456", "U+11457", "U+11458", "U+11459">>,
      <<"U+114D0", "U+114D1", "U+114D2", "U+114D3", "U+114D4",
        "U+114D5", "U+114D6", "U+114D7", "U+114D8", "U+114D9">>,
      <<"U+11650", "U+11651", "U+11652", "U+11653", "U+11654",
        "U+11655", "U+11656", "U+11657", "U+11658", "U+11659">>,
      <<"U+116C0", "U+116C1", "U+116C2", "U+116C3", "U+116C4",
        "U+116C5", "U+116C6", "U+116C7", "U+116C8", "U+116C9">>,
      <<"U+11730", "U+11731", "U+11732", "U+11733", "U+11734",
        "U+11735", "U+11736", "U+11737", "U+11738", "U+11739">>,
      <<"U+118E0", "U+118E1", "U+118E2", "U+118E3", "U+118E4",
        "U+118E5", "U+118E6", "U+118E7", "U+118E8", "U+118E9">>,
      <<"U+11950", "U+11951", "U+11952", "U+11953", "U+11954",
        "U+11955", "U+11956", "U+11957", "U+11958", "U+11959">>,
      <<"U+11C50", "U+11C51", "U+11C52", "U+11C53", "U+11C54",
        "U+11C55", "U+11C56", "U+11C57", "U+11C58", "U+11C59">>,
      <<"U+11D50", "U+11D51", "U+11D52", "U+11D53", "U+11D54",
        "U+11D55", "U+11D56", "U+11D57", "U+11D58", "U+11D59">>,
      <<"U+11DA0", "U+11DA1", "U+11DA2", "U+11DA3", "U+11DA4",
        "U+11DA5", "U+11DA6", "U+11DA7", "U+11DA8", "U+11DA9">>,
      <<"U+16A60", "U+16A61", "U+16A62", "U+16A63", "U+16A64",
        "U+16A65", "U+16A66", "U+16A67", "U+16A68", "U+16A69">>,
      <<"U+16AC0", "U+16AC1", "U+16AC2", "U+16AC3", "U+16AC4",
        "U+16AC5", "U+16AC6", "U+16AC7", "U+16AC8", "U+16AC9">>,
      <<"U+16B50", "U+16B51", "U+16B52", "U+16B53", "U+16B54",
        "U+16B55", "U+16B56", "U+16B57", "U+16B58", "U+16B59">>,
      <<"U+1D7CE", "U+1D7CF", "U+1D7D0", "U+1D7D1", "U+1D7D2",
        "U+1D7D3", "U+1D7D4", "U+1D7D5", "U+1D7D6", "U+1D7D7">>,
      <<"U+1D7D8", "U+1D7D9", "U+1D7DA", "U+1D7DB", "U+1D7DC",
        "U+1D7DD", "U+1D7DE", "U+1D7DF", "U+1D7E0", "U+1D7E1">>,
      <<"U+1D7E2", "U+1D7E3", "U+1D7E4", "U+1D7E5", "U+1D7E6",
        "U+1D7E7", "U+1D7E8", "U+1D7E9", "U+1D7EA", "U+1D7EB">>,
      <<"U+1D7EC", "U+1D7ED", "U+1D7EE", "U+1D7EF", "U+1D7F0",
        "U+1D7F1", "U+1D7F2", "U+1D7F3", "U+1D7F4", "U+1D7F5">>,
      <<"U+1D7F6", "U+1D7F7", "U+1D7F8", "U+1D7F9", "U+1D7FA",
        "U+1D7FB", "U+1D7FC", "U+1D7FD", "U+1D7FE", "U+1D7FF">>,
      <<"U+1E140", "U+1E141", "U+1E142", "U+1E143", "U+1E144",
        "U+1E145", "U+1E146", "U+1E147", "U+1E148", "U+1E149">>,
      <<"U+1E2F0", "U+1E2F1", "U+1E2F2", "U+1E2F3", "U+1E2F4",
        "U+1E2F5", "U+1E2F6", "U+1E2F7", "U+1E2F8", "U+1E2F9">>,
      <<"U+1E950", "U+1E951", "U+1E952", "U+1E953", "U+1E954",
        "U+1E955", "U+1E956", "U+1E957", "U+1E958", "U+1E959">>,
      <<"U+1FBF0", "U+1FBF1", "U+1FBF2", "U+1FBF3", "U+1FBF4",
        "U+1FBF5", "U+1FBF6", "U+1FBF7", "U+1FBF8", "U+1FBF9">>
    >>

Digit == UNION {{DigitRuns[k][d] : d \in 1..10} : k \in 1..Len(DigitRuns)}

\* The value of a decimal digit.
DigitVal(c) ==
    CHOOSE d \in 0..9 : \E k \in 1..Len(DigitRuns) : DigitRuns[k][d + 1] = c

\* The ASCII digit of value d.
DigitChar(d) == <<"0", "1", "2", "3", "4", "5", "6", "7", "8", "9">>[d + 1]

\* The characters str.strip() removes (str.isspace).
Whitespace ==
    {
     "\t", "\n", "U+000B", "U+000C", "U+000D", "U+001C", "U+001D",
     "U+001E", "U+001F", " ", "U+0085", "U+00A0", "U+1680", "U+2000",
     "U+2001", "U+2002", "U+2003", "U+2004", "U+2005", "U+2006", "U+2007",
     "U+2008", "U+2009", "U+200A", "U+2028", "U+2029", "U+202F", "U+205F",
     "U+3000"
    }

\* The characters float() skips at both ends of its argument: the white space
\* but the four separators U+001C to U+001F.
FloatSpace == Whitespace \ {"U+001C", "U+001D", "U+001E", "U+001F"}

\* The assigned characters repr() of a str escapes (str.isprintable rejects
\* them), each with its escape.
Escapes ==
    <<
      <<"U+0000", <<"\\", "x", "0", "0">>>>,
      <<"U+0001", <<"\\", "x", "0", "1">>>>,
      <<"U+0002", <<"\\", "x", "0", "2">>>>,
      <<"U+0003", <<"\\", "x", "0", "3">>>>,
      <<"U+0004", <<"\\", "x", "0", "4">>>>,
      <<"U+0005", <<"\\", "x", "0", "5">>>>,
      <<"U+0006", <<"\\", "x", "0", "6">>>>,
      <<"U+0007", <<"\\", "x", "0", "7">>>>,
      <<"U+0008", <<"\\", "x", "0", "8">>>>,
      <<"\t", <<"\\", "t">>>>,
      <<"\n", <<"\\", "n">>>>,
      <<"U+000B", <<"\\", "x", "0", "b">>>>,
      <<"U+000C", <<"\\", "x", "0", "c">>>>,
      <<"U+000D", <<"\\", "r">>>>,
      <<"U+000E", <<"\\", "x", "0", "e">>>>,
      <<"U+000F", <<"\\", "x", "0", "f">>>>,
      <<"U+0010", <<"\\", "x", "1", "0">>>>,
      <<"U+0011", <<"\\", "x", "1", "1">>>>,
      <<"U+0012", <<"\\", "x", "1", "2">>>>,
      <<"U+0013", <<"\\", "x", "1", "3">>>>,
      <<"U+0014", <<"\\", "x", "1", "4">>>>,
      <<"U+0015", <<"\\", "x", "1", "5">>>>,
      <<"U+0016", <<"\\", "x", "1", "6">>>>,
      <<"U+0017", <<"\\", "x", "1", "7">>>>,
      <<"U+0018", <<"\\", "x", "1", "8">>>>,
      <<"U+0019", <<"\\", "x", "1", "9">>>>,
      <<"U+001A", <<"\\", "x", "1", "a">>>>,
      <<"U+001B", <<"\\", "x", "1", "b">>>>,
      <<"U+001C", <<"\\", "x", "1", "c">>>>,
      <<"U+001D", <<"\\", "x", "1", "d">>>>,
      <<"U+001E", <<"\\", "x", "1", "e">>>>,
      <<"U+001F", <<"\\", "x", "1", "f">>>>,
      <<"U+007F", <<"\\", "x", "7", "f">>>>,
      <<"U+0080", <<"\\", "x", "8", "0">>>>,
      <<"U+0081", <<"\\", "x", "8", "1">>>>,
      <<"U+0082", <<"\\", "x", "8", "2">>>>,
      <<"U+0083", <<"\\", "x", "8", "3">>>>,
      <<"U+0084", <<"\\", "x", "8", "4">>>>,
      <<"U+0085", <<"\\", "x", "8", "5">>>>,
      <<"U+0086", <<"\\", "x", "8", "6">>>>,
      <<"U+0087", <<"\\", "x", "8", "7">>>>,
      <<"U+0088", <<"\\", "x", "8", "8">>>>,
      <<"U+0089", <<"\\", "x", "8", "9">>>>,
      <<"U+008A", <<"\\", "x", "8", "a">>>>,
      <<"U+008B", <<"\\", "x", "8", "b">>>>,
      <<"U+008C", <<"\\", "x", "8", "c">>>>,
      <<"U+008D", <<"\\", "x", "8", "d">>>>,
      <<"U+008E", <<"\\", "x", "8", "e">>>>,
      <<"U+008F", <<"\\", "x", "8", "f">>>>,
      <<"U+0090", <<"\\", "x", "9", "0">>>>,
      <<"U+0091", <<"\\", "x", "9", "1">>>>,
      <<"U+0092", <<"\\", "x", "9", "2">>>>,
      <<"U+0093", <<"\\", "x", "9", "3">>>>,
      <<"U+0094", <<"\\", "x", "9", "4">>>>,
      <<"U+0095", <<"\\", "x", "9", "5">>>>,
      <<"U+0096", <<"\\", "x", "9", "6">>>>,
      <<"U+0097", <<"\\", "x", "9", "7">>>>,
      <<"U+0098", <<"\\", "x", "9", "8">>>>,
      <<"U+0099", <<"\\", "x", "9", "9">>>>,
      <<"U+009A", <<"\\", "x", "9", "a">>>>,
      <<"U+009B", <<"\\", "x", "9", "b">>>>,
      <<"U+009C", <<"\\", "x", "9", "c">>>>,
      <<"U+009D", <<"\\", "x", "9", "d">>>>,
      <<"U+009E", <<"\\", "x", "9", "e">>>>,
      <<"U+009F", <<"\\", "x", "9", "f">>>>,
      <<"U+00A0", <<"\\", "x", "a", "0">>>>,
      <<"U+00AD", <<"\\", "x", "a", "d">>>>,
      <<"U+0600", <<"\\", "u", "0", "6", "0", "0">>>>,
      <<"U+0601", <<"\\", "u", "0", "6", "0", "1">>>>,
      <<"U+0602", <<"\\", "u", "0", "6", "0", "2">>>>,
      <<"U+0603", <<"\\", "u", "0", "6", "0", "3">>>>,
      <<"U+0604", <<"\\", "u", "0", "6", "0", "4">>>>,
      <<"U+0605", <<"\\", "u", "0", "6", "0", "5">>>>,
      <<"U+061C", <<"\\", "u", "0", "6", "1", "c">>>>,
      <<"U+06DD", <<"\\", "u", "0", "6", "d", "d">>>>,
      <<"U+070F", <<"\\", "u", "0", "7", "0", "f">>>>,
      <<"U+0890", <<"\\", "u", "0", "8", "9", "0">>>>,
      <<"U+0891", <<"\\", "u", "0", "8", "9", "1">>>>,
      <<"U+08E2", <<"\\", "u", "0", "8", "e", "2">>>>,
      <<"U+1680", <<"\\", "u", "1", "6", "8", "0">>>>,
      <<"U+180E", <<"\\", "u", "1", "8", "0", "e">>>>,
      <<"U+2000", <<"\\", "u", "2", "0", "0", "0">>>>,
      <<"U+2001", <<"\\", "u", "2", "0", "0", "1">>>>,
      <<"U+2002", <<"\\", "u", "2", "0", "0", "2">>>>,
      <<"U+2003", <<"\\", "u", "2", "0", "0", "3">>>>,
      <<"U+2004", <<"\\", "u", "2", "0", "0", "4">>>>,
      <<"U+2005", <<"\\", "u", "2", "0", "0", "5">>>>,
      <<"U+2006", <<"\\", "u", "2", "0", "0", "6">>>>,
      <<"U+2007", <<"\\", "u", "2", "0", "0", "7">>>>,
      <<"U+2008", <<"\\", "u", "2", "0", "0", "8">>>>,
      <<"U+2009", <<"\\", "u", "2", "0", "0", "9">>>>,
      <<"U+200A", <<"\\", "u", "2", "0", "0", "a">>>>,
      <<"U+200B", <<"\\", "u", "2", "0", "0", "b">>>>,
      <<"U+200C", <<"\\", "u", "2", "0", "0", "c">>>>,
      <<"U+200D", <<"\\", "u", "2", "0", "0", "d">>>>,
      <<"U+200E", <<"\\", "u", "2", "0", "0", "e">>>>,
      <<"U+200F", <<"\\", "u", "2", "0", "0", "f">>>>,
      <<"U+2028", <<"\\", "u", "2", "0", "2", "8">>>>,
      <<"U+2029", <<"\\", "u", "2", "0", "2", "9">>>>,
      <<"U+202A", <<"\\", "u", "2", "0", "2", "a">>>>,
      <<"U+202B", <<"\\", "u", "2", "0", "2", "b">>>>,
      <<"U+202C", <<"\\", "u", "2", "0", "2", "c">>>>,
      <<"U+202D", <<"\\", "u", "2", "0", "2", "d">>>>,
      <<"U+202E", <<"\\", "u", "2", "0", "2", "e">>>>,
      <<"U+202F", <<"\\", "u", "2", "0", "2", "f">>>>,
      <<"U+205F", <<"\\", "u", "2", "0", "5", "f">>>>,
      <<"U+2060", <<"\\", "u", "2", "0", "6", "0">>>>,
      <<"U+2061", <<"\\", "u", "2", "0", "6", "1">>>>,
      <<"U+2062", <<"\\", "u", "2", "0", "6", "2">>>>,
      <<"U+2063", <<"\\", "u", "2", "0", "6", "3">>>>,
      <<"U+2064", <<"\\", "u", "2", "0", "6", "4">>>>,
      <<"U+2066", <<"\\", "u", "2", "0", "6", "6">>>>,
      <<"U+2067", <<"\\", "u", "2", "0", "6", "7">>>>,
      <<"U+2068", <<"\\", "u", "2", "0", "6", "8">>>>,
      <<"U+2069", <<"\\", "u", "2", "0", "6", "9">>>>,
      <<"U+206A", <<"\\", "u", "2", "0", "6", "a">>>>,
      <<"U+206B", <<"\\", "u", "2", "0", "6", "b">>>>,
      <<"U+206C", <<"\\", "u", "2", "0", "6", "c">>>>,
      <<"U+206D", <<"\\", "u", "2", "0", "6", "d">>>>,
      <<"U+206E", <<"\\", "u", "2", "0", "6", "e">>>>,
      <<"U+206F", <<"\\", "u", "2", "0", "6", "f">>>>,
      <<"U+3000", <<"\\", "u", "3", "0", "0", "0">>>>,
      <<"U+FEFF", <<"\\", "u", "f", "e", "f", "f">>>>,
      <<"U+FFF9", <<"\\", "u", "f", "f", "f", "9">>>>,
      <<"U+FFFA", <<"\\", "u", "f", "f", "f", "a">>>>,
      <<"U+FFFB", <<"\\", "u", "f", "f", "f", "b">>>>,
      <<"U+110BD", <<"\\", "U", "0", "0", "0", "1", "1", "0", "b", "d">>>>,
      <<"U+110CD", <<"\\", "U", "0", "0", "0", "1", "1", "0", "c", "d">>>>,
      <<"U+13430", <<"\\", "U", "0", "0", "0", "1", "3", "4", "3", "0">>>>,
      <<"U+13431", <<"\\", "U", "0", "0", "0", "1", "3", "4", "3", "1">>>>,
      <<"U+13432", <<"\\", "U", "0", "0", "0", "1", "3", "4", "3", "2">>>>,
      <<"U+13433", <<"\\", "U", "0", "0", "0", "1", "3", "4", "3", "3">>>>,
      <<"U+13434", <<"\\", "U", "0", "0", "0", "1", "3", "4", "3", "4">>>>,
      <<"U+13435", <<"\\", "U", "0", "0", "0", "1", "3", "4", "3", "5">>>>,
      <<"U+13436", <<"\\", "U", "0", "0", "0", "1", "3", "4", "3", "6">>>>,
      <<"U+13437", <<"\\", "U", "0", "0", "0", "1", "3", "4", "3", "7">>>>,
      <<"U+13438", <<"\\", "U", "0", "0", "0", "1", "3", "4", "3", "8">>>>,
      <<"U+1BCA0", <<"\\", "U", "0", "0", "0", "1", "b", "c", "a", "0">>>>,
      <<"U+1BCA1", <<"\\", "U", "0", "0", "0", "1", "b", "c", "a", "1">>>>,
      <<"U+1BCA2", <<"\\", "U", "0", "0", "0", "1", "b", "c", "a", "2">>>>,
      <<"U+1BCA3", <<"\\", "U", "0", "0", "0", "1", "b", "c", "a", "3">>>>,
      <<"U+1D173", <<"\\", "U", "0", "0", "0", "1", "d", "1", "7", "3">>>>,
      <<"U+1D174", <<"\\", "U", "0", "0", "0", "1", "d", "1", "7", "4">>>>,
      <<"U+1D175", <<"\\", "U", "0", "0", "0", "1", "d", "1", "7", "5">>>>,
      <<"U+1D176", <<"\\", "U", "0", "0", "0", "1", "d", "1", "7", "6">>>>,
      <<"U+1D177", <<"\\", "U", "0", "0", "0", "1", "d", "1", "7", "7">>>>,
      <<"U+1D178", <<"\\", "U", "0", "0", "0", "1", "d", "1", "7", "8">>>>,
      <<"U+1D179", <<"\\", "U", "0", "0", "0", "1", "d", "1", "7", "9">>>>,
      <<"U+1D17A", <<"\\", "U", "0", "0", "0", "1", "d", "1", "7", "a">>>>,
      <<"U+E0001", <<"\\", "U", "0", "0", "0", "e", "0", "0", "0", "1">>>>,
      <<"U+E0020", <<"\\", "U", "0", "0", "0", "e", "0", "0", "2", "0">>>>,
      <<"U+E0021", <<"\\", "U", "0", "0", "0", "e", "0", "0", "2", "1">>>>,
      <<"U+E0022", <<"\\", "U", "0", "0", "0", "e", "0", "0", "2", "2">>>>,
      <<"U+E0023", <<"\\", "U", "0", "0", "0", "e", "0", "0", "2", "3">>>>,
      <<"U+E0024", <<"\\", "U", "0", "0", "0", "e", "0", "0", "2", "4">>>>,
      <<"U+E0025", <<"\\", "U", "0", "0", "0", "e", "0", "0", "2", "5">>>>,
      <<"U+E0026", <<"\\", "U", "0", "0", "0", "e", "0", "0", "2", "6">>>>,
      <<"U+E0027", <<"\\", "U", "0", "0", "0", "e", "0", "0", "2", "7">>>>,
      <<"U+E0028", <<"\\", "U", "0", "0", "0", "e", "0", "0", "2", "8">>>>,
      <<"U+E0029", <<"\\", "U", "0", "0", "0", "e", "0", "0", "2", "9">>>>,
      <<"U+E002A", <<"\\", "U", "0", "0", "0", "e", "0", "0", "2", "a">>>>,
      <<"U+E002B", <<"\\", "U", "0", "0", "0", "e", "0", "0", "2", "b">>>>,
      <<"U+E002C", <<"\\", "U", "0", "0", "0", "e", "0", "0", "2", "c">>>>,
      <<"U+E002D", <<"\\", "U", "0", "0", "0", "e", "0", "0", "2", "d">>>>,
      <<"U+E002E", <<"\\", "U", "0", "0", "0", "e", "0", "0", "2", "e">>>>,
      <<"U+E002F", <<"\\", "U", "0", "0", "0", "e", "0", "0", "2", "f">>>>,
      <<"U+E0030", <<"\\", "U", "0", "0", "0", "e", "0", "0", "3", "0">>>>,
      <<"U+E0031", <<"\\", "U", "0", "0", "0", "e", "0", "0", "3", "1">>>>,
      <<"U+E0032", <<"\\", "U", "0", "0", "0", "e", "0", "0", "3", "2">>>>,
      <<"U+E0033", <<"\\", "U", "0", "0", "0", "e", "0", "0", "3", "3">>>>,
      <<"U+E0034", <<"\\", "U", "0", "0", "0", "e", "0", "0", "3", "4">>>>,
      <<"U+E0035", <<"\\", "U", "0", "0", "0", "e", "0", "0", "3", "5">>>>,
      <<"U+E0036", <<"\\", "U", "0", "0", "0", "e", "0", "0", "3", "6">>>>,
      <<"U+E0037", <<"\\", "U", "0", "0", "0", "e", "0", "0", "3", "7">>>>,
      <<"U+E0038", <<"\\", "U", "0", "0", "0", "e", "0", "0", "3", "8">>>>,
      <<"U+E0039", <<"\\", "U", "0", "0", "0", "e", "0", "0", "3", "9">>>>,
      <<"U+E003A", <<"\\", "U", "0", "0", "0", "e", "0", "0", "3", "a">>>>,
      <<"U+E003B", <<"\\", "U", "0", "0", "0", "e", "0", "0", "3", "b">>>>,
      <<"U+E003C", <<"\\", "U", "0", "0", "0", "e", "0", "0", "3", "c">>>>,
      <<"U+E003D", <<"\\", "U", "0", "0", "0", "e", "0", "0", "3", "d">>>>,
      <<"U+E003E", <<"\\", "U", "0", "0", "0", "e", "0", "0", "3", "e">>>>,
      <<"U+E003F", <<"\\", "U", "0", "0", "0", "e", "0", "0", "3", "f">>>>,
      <<"U+E0040", <<"\\", "U", "0", "0", "0", "e", "0", "0", "4", "0">>>>,
      <<"U+E0041", <<"\\", "U", "0", "0", "0", "e", "0", "0", "4", "1">>>>,
      <<"U+E0042", <<"\\", "U", "0", "0", "0", "e", "0", "0", "4", "2">>>>,
      <<"U+E0043", <<"\\", "U", "0", "0", "0", "e", "0", "0", "4", "3">>>>,
      <<"U+E0044", <<"\\", "U", "0", "0", "0", "e", "0", "0", "4", "4">>>>,
      <<"U+E0045", <<"\\", "U", "0", "0", "0", "e", "0", "0", "4", "5">>>>,
      <<"U+E0046", <<"\\", "U", "0", "0", "0", "e", "0", "0", "4", "6">>>>,
      <<"U+E0047", <<"\\", "U", "0", "0", "0", "e", "0", "0", "4", "7">>>>,
      <<"U+E0048", <<"\\", "U", "0", "0", "0", "e", "0", "0", "4", "8">>>>,
      <<"U+E0049", <<"\\", "U", "0", "0", "0", "e", "0", "0", "4", "9">>>>,
      <<"U+E004A", <<"\\", "U", "0", "0", "0", "e", "0", "0", "4", "a">>>>,
      <<"U+E004B", <<"\\", "U", "0", "0", "0", "e", "0", "0", "4", "b">>>>,
      <<"U+E004C", <<"\\", "U", "0", "0", "0", "e", "0", "0", "4", "c">>>>,
      <<"U+E004D", <<"\\", "U", "0", "0", "0", "e", "0", "0", "4", "d">>>>,
      <<"U+E004E", <<"\\", "U", "0", "0", "0", "e", "0", "0", "4", "e">>>>,
      <<"U+E004F", <<"\\", "U", "0", "0", "0", "e", "0", "0", "4", "f">>>>,
      <<"U+E0050", <<"\\", "U", "0", "0", "0", "e", "0", "0", "5", "0">>>>,
      <<"U+E0051", <<"\\", "U", "0", "0", "0", "e", "0", "0", "5", "1">>>>,
      <<"U+E0052", <<"\\", "U", "0", "0", "0", "e", "0", "0", "5", "2">>>>,
      <<"U+E0053", <<"\\", "U", "0", "0", "0", "e", "0", "0", "5", "3">>>>,
      <<"U+E0054", <<"\\", "U", "0", "0", "0", "e", "0", "0", "5", "4">>>>,
      <<"U+E0055", <<"\\", "U", "0", "0", "0", "e", "0", "0", "5", "5">>>>,
      <<"U+E0056", <<"\\", "U", "0", "0", "0", "e", "0", "0", "5", "6">>>>,
      <<"U+E0057", <<"\\", "U", "0", "0", "0", "e", "0", "0", "5", "7">>>>,
      <<"U+E0058", <<"\\", "U", "0", "0", "0", "e", "0", "0", "5", "8">>>>,
      <<"U+E0059", <<"\\", "U", "0", "0", "0", "e", "0", "0", "5", "9">>>>,
      <<"U+E005A", <<"\\", "U", "0", "0", "0", "e", "0", "0", "5", "a">>>>,
      <<"U+E005B", <<"\\", "U", "0", "0", "0", "e", "0", "0", "5", "b">>>>,
      <<"U+E005C", <<"\\", "U", "0", "0", "0", "e", "0", "0", "5", "c">>>>,
      <<"U+E005D", <<"\\", "U", "0", "0", "0", "e", "0", "0", "5", "d">>>>,
      <<"U+E005E", <<"\\", "U", "0", "0", "0", "e", "0", "0", "5", "e">>>>,
      <<"U+E005F", <<"\\", "U", "0", "0", "0", "e", "0", "0", "5", "f">>>>,
      <<"U+E0060", <<"\\", "U", "0", "0", "0", "e", "0", "0", "6", "0">>>>,
      <<"U+E0061", <<"\\", "U", "0", "0", "0", "e", "0", "0", "6", "1">>>>,
      <<"U+E0062", <<"\\", "U", "0", "0", "0", "e", "0", "0", "6", "2">>>>,
      <<"U+E0063", <<"\\", "U", "0", "0", "0", "e", "0", "0", "6", "3">>>>,
      <<"U+E0064", <<"\\", "U", "0", "0", "0", "e", "0", "0", "6", "4">>>>,
      <<"U+E0065", <<"\\", "U", "0", "0", "0", "e", "0", "0", "6", "5">>>>,
      <<"U+E0066", <<"\\", "U", "0", "0", "0", "e", "0", "0", "6", "6">>>>,
      <<"U+E0067", <<"\\", "U", "0", "0", "0", "e", "0", "0", "6", "7">>>>,
      <<"U+E0068", <<"\\", "U", "0", "0", "0", "e", "0", "0", "6", "8">>>>,
      <<"U+E0069", <<"\\", "U", "0", "0", "0", "e", "0", "0", "6", "9">>>>,
      <<"U+E006A", <<"\\", "U", "0", "0", "0", "e", "0", "0", "6", "a">>>>,
      <<"U+E006B", <<"\\", "U", "0", "0", "0", "e", "0", "0", "6", "b">>>>,
      <<"U+E006C", <<"\\", "U", "0", "0", "0", "e", "0", "0", "6", "c">>>>,
      <<"U+E006D", <<"\\", "U", "0", "0", "0", "e", "0", "0", "6", "d">>>>,
      <<"U+E006E", <<"\\", "U", "0", "0", "0", "e", "0", "0", "6", "e">>>>,
      <<"U+E006F", <<"\\", "U", "0", "0", "0", "e", "0", "0", "6", "f">>>>,
      <<"U+E0070", <<"\\", "U", "0", "0", "0", "e", "0", "0", "7", "0">>>>,
      <<"U+E0071", <<"\\", "U", "0", "0", "0", "e", "0", "0", "7", "1">>>>,
      <<"U+E0072", <<"\\", "U", "0", "0", "0", "e", "0", "0", "7", "2">>>>,
      <<"U+E0073", <<"\\", "U", "0", "0", "0", "e", "0", "0", "7", "3">>>>,
      <<"U+E0074", <<"\\", "U", "0", "0", "0", "e", "0", "0", "7", "4">>>>,
      <<"U+E0075", <<"\\", "U", "0", "0", "0", "e", "0", "0", "7", "5">>>>,
      <<"U+E0076", <<"\\", "U", "0", "0", "0", "e", "0", "0", "7", "6">>>>,
      <<"U+E0077", <<"\\", "U", "0", "0", "0", "e", "0", "0", "7", "7">>>>,
      <<"U+E0078", <<"\\", "U", "0", "0", "0", "e", "0", "0", "7", "8">>>>,
      <<"U+E0079", <<"\\", "U", "0", "0", "0", "e", "0", "0", "7", "9">>>>,
      <<"U+E007A", <<"\\", "U", "0", "0", "0", "e", "0", "0", "7", "a">>>>,
      <<"U+E007B", <<"\\", "U", "0", "0", "0", "e", "0", "0", "7", "b">>>>,
      <<"U+E007C", <<"\\", "U", "0", "0", "0", "e", "0", "0", "7", "c">>>>,
      <<"U+E007D", <<"\\", "U", "0", "0", "0", "e", "0", "0", "7", "d">>>>,
      <<"U+E007E", <<"\\", "U", "0", "0", "0", "e", "0", "0", "7", "e">>>>,
      <<"U+E007F", <<"\\", "U", "0", "0", "0", "e", "0", "0", "7", "f">>>>
    >>

NonPrintable == {Escapes[k][1] : k \in 1..Len(Escapes)}
---------------------------------------------------------------------------
(* Strings                                                                 *)

\* sub in s, for Python strs.
Contains(s, sub) ==
    \E i \in 1..(Len(s) - Len(sub) + 1) : SubSeq(s, i, i + Len(sub) - 1) = sub

StartsWith(s, pre) ==
    Len(pre) <= Len(s) /\ SubSeq(s, 1, Len(pre)) = pre

\* s.replace(c, '') for a one-character c.
Remove(s, c) == SelectSeq(s, LAMBDA x : x # c)

\* s without the characters of cs at its start.
LStripOf(s, cs) ==
    SubSeq(s, CHOOSE i \in 1..(Len(s) + 1) :
                 /\ i = Len(s) + 1 \/ s[i] \notin cs
                 /\ \A j \in 1..(i - 1) : s[j] \in cs, Len(s))

\* s without the characters of cs at its end.
RStripOf(s, cs) ==
    SubSeq(s, 1, CHOOSE i \in 0..Len(s) :
                    /\ i = 0 \/ s[i] \notin cs
                    /\ \A j \in (i + 1)..Len(s) : s[j] \in cs)

LStrip(s) == LStripOf(s, Whitespace)

RStrip(s) == RStripOf(s, Whitespace)

\* s.strip()
Strip(s) == RStrip(LStrip(s))

---------------------------------------------------------------------------
(* Natural numbers of any size                                             *)
(*                                                                         *)
(* The significand of a double has 53 bits and TLC's integers have 32, so  *)
(* a natural number is kept as the sequence of its digits in base 2^15,    *)
(* lowest digit first, with no zero at the top; <<>> is 0.                 *)
(*                                                                         *)
(* A loop of n rounds is done half by half, the first half worked out      *)
(* before the second is begun (the test half = half makes TLC do so), so   *)
(* that the evaluation nests no deeper than the logarithm of n.            *)

Base == 2^15

\* a without the zeros at its top.
Trim(a) == RStripOf(a, {0})

RECURSIVE BigOf(_)
\* The natural number n >= 0 of TLC.
BigOf(n) == IF n = 0 THEN <<>> ELSE <<n % Base>> \o BigOf(n \div Base)

Limb(a, i) == IF i <= Len(a) THEN a[i] ELSE 0

\* The lowest digit of x put on top of acc, the rest of x carried.
Carry(acc, x) == [c |-> x \div Base, acc |-> Append(acc, x % Base)]

\* The digits st.acc with the carry st.c on top.
Carried(st) == IF st.c = 0 THEN st.acc ELSE Append(st.acc, st.c)

\* One digit of a + b, with the carry st.c.
AddStep(a, b, st) ==
    Carry(st.acc, Limb(a, Len(st.acc) + 1) + Limb(b, Len(st.acc) + 1) + st.c)

RECURSIVE AddLoop(_, _, _, _)
AddLoop(a, b, st, n) ==
    IF n <= 1 THEN (IF n = 1 THEN AddStep(a, b, st) ELSE st)
    ELSE LET half == AddLoop(a, b, st, n \div 2)
         IN  IF half = half THEN AddLoop(a, b, half, n - n \div 2) ELSE st

BigAdd(a, b) ==
    Carried(AddLoop(a, b, [c |-> 0, acc |-> <<>>],
                    IF Len(a) >= Len(b) THEN Len(a) ELSE Len(b)))

\* The lowest digit of x put on top of acc, a negative x borrowing.
Borrow(acc, x) == [c |-> IF x < 0 THEN 1 ELSE 0, acc |-> Append(acc, x % Base)]

\* One digit of a - b, with the borrow st.c.
SubStep(a, b, st) ==
    Borrow(st.acc, a[Len(st.acc) + 1] - Limb(b, Len(st.acc) + 1) - st.c)

RECURSIVE SubLoop(_, _, _, _)
SubLoop(a, b, st, n) ==
    IF n <= 1 THEN (IF n = 1 THEN SubStep(a, b, st) ELSE st)
    ELSE LET half == SubLoop(a, b, st, n \div 2)
         IN  IF half = half THEN SubLoop(a, b, half, n - n \div 2) ELSE st

\* a - b for a >= b.
BigSub(a, b) == Trim(SubLoop(a, b, [c |-> 0, acc |-> <<>>], Len(a)).acc)

\* -1, 0 or 1 as a is below, equal to or above b: by the number of digits,
\* then by the highest digit that differs.
BigCmp(a, b) ==
    IF Len(a) # Len(b) THEN (IF Len(a) < Len(b) THEN -1 ELSE 1)
    ELSE IF a = b THEN 0
    ELSE IF \E i \in 1..Len(a) :
               a[i] < b[i] /\ \A j \in (i + 1)..Len(a) : a[j] = b[j]
    THEN -1 ELSE 1

\* One digit of a * k, with the carry st.c.
TimesStep(a, k, st) == Carry(st.acc, a[Len(st.acc) + 1] * k + st.c)

RECURSIVE TimesLoop(_, _, _, _)
TimesLoop(a, k, st, n) ==
    IF n <= 1 THEN (IF n = 1 THEN TimesStep(a, k, st) ELSE st)
    ELSE LET half == TimesLoop(a, k, st, n \div 2)
         IN  IF half = half THEN TimesLoop(a, k, half, n - n \div 2) ELSE st

\* a * k + c for 0 <= k <= Base and 0 <= c < Base.
TimesPlus(a, k, c) == Carried(TimesLoop(a, k, [c |-> c, acc |-> <<>>], Len(a)))

\* a * k for 0 <= k <= Base.
BigTimes(a, k) == IF k = 0 THEN <<>> ELSE TimesPlus(a, k, 0)

\* 2 * a + bit
BigTwice(a, bit) == TimesPlus(a, 2, bit)

\* The digit x \div k put below acc, the rest of x left.
Remain(acc, x, k) == [r |-> x % k, acc |-> <<x \div k>> \o acc]

\* One digit of a \div k, from the top, with the remainder st.r.
DivStep(a, k, st) == Remain(st.acc, st.r * Base + a[Len(a) - Len(st.acc)], k)

RECURSIVE DivLoop(_, _, _, _)
DivLoop(a, k, st, n) ==
    IF n <= 1 THEN (IF n = 1 THEN DivStep(a, k, st) ELSE st)
    ELSE LET half == DivLoop(a, k, st, n \div 2)
         IN  IF half = half THEN DivLoop(a, k, half, n - n \div 2) ELSE st

\* The quotient q and the remainder r of DivLoop's result.
Quot(st) == [q |-> Trim(st.acc), r |-> st.r]

\* The quotient q and the remainder r of a by k, for 0 < k <= Base.
BigDivSmall(a, k) == Quot(DivLoop(a, k, [r |-> 0, acc |-> <<>>], Len(a)))

\* a * 2^n
BigShl(a, n) ==
    IF a = <<>> THEN <<>>
    ELSE [i \in 1..(n \div 15) |-> 0] \o BigTimes(a, 2^(n % 15))

\* a \div 2^n
BigShr(a, n) ==
    IF n \div 15 >= Len(a) THEN <<>>
    ELSE BigDivSmall(SubSeq(a, n \div 15 + 1, Len(a)), 2^(n % 15)).q

\* Bit i of a, bit 0 being the lowest.
BigBit(a, i) ==
    IF i \div 15 + 1 > Len(a) THEN 0
    ELSE (a[i \div 15 + 1] \div 2^(i % 15)) % 2

\* The n lowest bits of a are all 0.
BigLowZero(a, n) ==
    /\ \A j \in 1..(n \div 15) : Limb(a, j) = 0
    /\ Limb(a, n \div 15 + 1) % 2^(n % 15) = 0

BigOdd(a) == a # <<>> /\ a[1] % 2 = 1

\* The number of bits of 0 <= n < Base.
SmallBits(n) == CHOOSE b \in 0..15 : 2^b > n /\ (b = 0 \/ 2^(b - 1) <= n)

\* The number of bits of a: 0 for 0.
BigBits(a) ==
    IF a = <<>> THEN 0 ELSE 15 * (Len(a) - 1) + SmallBits(a[Len(a)])

\* The number of 0 bits below the lowest 1 bit of a # 0.
LowZeros(a) ==
    CHOOSE i \in 0..BigBits(a) : BigBit(a, i) = 1 /\ BigLowZero(a, i)

\* The step of DivBit once 2 * st.r + the bit is known to be r2.
DivBitOf(b, st, r2) ==
    IF BigCmp(r2, b) >= 0
    THEN [i |-> st.i - 1, q |-> BigTwice(st.q, 1), r |-> BigSub(r2, b)]
    ELSE [i |-> st.i - 1, q |-> BigTwice(st.q, 0), r |-> r2]

\* One step of long division of a by b, for bit st.i of a.
DivBit(a, b, st) == DivBitOf(b, st, BigTwice(st.r, BigBit(a, st.i)))

RECURSIVE DivBits(_, _, _, _)
DivBits(a, b, st, n) ==
    IF n <= 1 THEN (IF n = 1 THEN DivBit(a, b, st) ELSE st)
    ELSE LET half == DivBits(a, b, st, n \div 2)
         IN  IF half = half THEN DivBits(a, b, half, n - n \div 2) ELSE st

\* The quotient q and the remainder r of a by b # 0, bit by bit from the top.
BigDivMod(a, b) ==
    DivBits(a, b, [i |-> BigBits(a) - 1, q |-> <<>>, r |-> <<>>], BigBits(a))

RECURSIVE TimesPow(_, _, _)
\* a * k^n
TimesPow(a, k, n) ==
    IF n <= 1 THEN (IF n = 1 THEN BigTimes(a, k) ELSE a)
    ELSE LET half == TimesPow(a, k, n \div 2)
         IN  IF half = half THEN TimesPow(half, k, n - n \div 2) ELSE a

\* a * 10^n
BigTimesPow10(a, n) == TimesPow(TimesPow(a, 10000, n \div 4), 10, n % 4)

\* The quotient d of st.q, a remainder making st inexact.
Inexact(st, d) == [q |-> d.q, inexact |-> st.inexact \/ d.r # 0]

\* One division by k of st.q.
DivPow10Step(st, k) == Inexact(st, BigDivSmall(st.q, k))

RECURSIVE DivPow(_, _, _)
DivPow(st, k, n) ==
    IF n <= 1 THEN (IF n = 1 THEN DivPow10Step(st, k) ELSE st)
    ELSE LET half == DivPow(st, k, n \div 2)
         IN  IF half = half THEN DivPow(half, k, n - n \div 2) ELSE st

\* a \div 10^n as q, with inexact = TRUE when the division (or one before it,
\* as the caller says) left a remainder.
DivPow10(a, n, inexact) ==
    DivPow(DivPow([q |-> a, inexact |-> inexact], 10000, n \div 4), 10, n % 4)

\* The four decimal digits of r < 10000.
FourDigits(r) ==
    <<DigitChar(r \div 1000), DigitChar((r \div 100) % 10),
      DigitChar((r \div 10) % 10), DigitChar(r % 10)>>

\* The digits of the remainder of d put before acc.
Lower4(acc, d) == [a |-> d.q, acc |-> FourDigits(d.r) \o acc]

\* The four lowest decimal digits of st.a put before st.acc.
DecimalStep(st) == Lower4(st.acc, BigDivSmall(st.a, 10000))

RECURSIVE DecimalLoop(_, _)
DecimalLoop(st, n) ==
    IF n <= 1 THEN (IF n = 1 THEN DecimalStep(st) ELSE st)
    ELSE LET half == DecimalLoop(st, n \div 2)
         IN  IF half = half THEN DecimalLoop(half, n - n \div 2) ELSE st

\* ds, or "0" for no digit.
OrZero(ds) == IF ds = <<>> THEN <<"0">> ELSE ds

\* The decimal digits of a, highest first; "0" for 0.  A number of b bits has
\* at most 0.302 b + 1 digits.
BigDecimal(a) ==
    OrZero(LStripOf(DecimalLoop([a |-> a, acc |-> <<>>],
                                ((BigBits(a) * 302) \div 1000 + 1) \div 4 + 1).acc,
                    {"0"}))

---------------------------------------------------------------------------
(* Floats                                                                  *)
(*                                                                         *)
(* A finite double is (-1)^neg * mant * 2^exp with mant odd, or mant = 0   *)
(* and exp = 0 for the two zeros, so that equal doubles are equal records. *)

NoneNum == [none |-> TRUE, cls |-> "fin", neg |-> FALSE, mant |-> <<>>, exp |-> 0]

NaN == [none |-> FALSE, cls |-> "nan", neg |-> FALSE, mant |-> <<>>, exp |-> 0]

Inf(neg) == [none |-> FALSE, cls |-> "inf", neg |-> neg, mant |-> <<>>, exp |-> 0]

\* (-1)^neg * m * 2^e for m # 0 with z zero bits at its low end.
Odd(neg, m, e, z) ==
    [none |-> FALSE, cls |-> "fin", neg |-> neg, mant |-> BigShr(m, z), exp |-> e + z]

\* The double (-1)^neg * m * 2^e, for m of at most 53 bits once its low zero
\* bits are dropped.
Finite(neg, m, e) ==
    IF m = <<>>
    THEN [none |-> FALSE, cls |-> "fin", neg |-> neg, mant |-> <<>>, exp |-> 0]
    ELSE Odd(neg, m, e, LowZeros(m))

Zero == [none |-> FALSE, cls |-> "fin", neg |-> FALSE, mant |-> <<>>, exp |-> 0]

IsZero(x) == x.cls = "fin" /\ x.mant = <<>>

IsNaN(x) == x.cls = "nan"

\* (-1)^neg * m * 2^e, an infinity from 2^1024 on.
Ranged(neg, m, e) == IF BigBits(m) + e > 1024 THEN Inf(neg) ELSE Finite(neg, m, e)

\* q, or q + 1 when the part cut off is above a half (half and sticky), or
\* is a half and q is odd.
RoundUp(q, half, sticky) ==
    IF half /\ (sticky \/ BigOdd(q)) THEN BigAdd(q, <<1>>) ELSE q

\* RoundDouble for the exponent e of the lowest bit kept.
RoundAt(neg, n, k, inexact, e) ==
    IF e <= k THEN Ranged(neg, n, k)
    ELSE Ranged(neg, RoundUp(BigShr(n, e - k), BigBit(n, e - k - 1) = 1,
                             inexact \/ ~BigLowZero(n, e - k - 1)), e)

\* The greater of two integers.
Larger(i, j) == IF i > j THEN i ELSE j

\* The double nearest to (n + d) * 2^k, ties to the even significand, where
\* 0 <= d < 1 and d > 0 just when inexact (n then has 55 bits or more):
\* 53 bits of significand, exponents from -1074, infinity from 2^1024 on.
RoundDouble(neg, n, k, inexact) ==
    RoundAt(neg, n, k, inexact, Larger(k + BigBits(n) - 53, -1074))

\* RoundDouble of the quotient r of DivPow10.
RoundQuot(neg, r, k) == RoundDouble(neg, r.q, k, r.inexact)

\* The double nearest to (-1)^neg * d * 10^p.  A d of b bits lies between
\* 10^(0.301 (b - 1)) and 10^(0.302 b): from 10^309 on the double is an
\* infinity, below 10^-324 a zero.
DecToDouble(neg, d, p) ==
    IF d = <<>> THEN Finite(neg, <<>>, 0)
    ELSE IF ((BigBits(d) - 1) * 301) \div 1000 + p >= 309 THEN Inf(neg)
    ELSE IF (BigBits(d) * 302) \div 1000 + 1 + p <= -324
    THEN Finite(neg, <<>>, 0)
    ELSE IF p >= 0 THEN RoundDouble(neg, BigTimesPow10(d, p), 0, FALSE)
    ELSE RoundQuot(neg, DivPow10(BigShl(d, 60 + 4 * (-p)), -p, FALSE),
                   -(60 + 4 * (-p)))

\* The float nearest to (-1)^neg * m / 10^s, for TLC naturals m and s.
Num(neg, m, s) == DecToDouble(neg, BigOf(m), -s)

Abs(x) == [x EXCEPT !.neg = FALSE]

\* The position of the highest bit of a finite x # 0.
Top(x) == BigBits(x.mant) + x.exp

\* The smaller of two integers.
Smaller(i, j) == IF i < j THEN i ELSE j

\* -1, 0 or 1 as |x| is below, equal to or above |y|, for finite x and y
\* other than zeros.
CmpMag(x, y) ==
    IF Top(x) # Top(y) THEN (IF Top(x) < Top(y) THEN -1 ELSE 1)
    ELSE BigCmp(BigShl(x.mant, x.exp - Smaller(x.exp, y.exp)),
                BigShl(y.mant, y.exp - Smaller(x.exp, y.exp)))

\* |x| > |y| for x and y other than nan.
MagGreater(x, y) ==
    IF x.cls = "inf" THEN y.cls # "inf"
    ELSE IF y.cls = "inf" \/ IsZero(x) THEN FALSE
    ELSE IF IsZero(y) THEN TRUE
    ELSE CmpMag(x, y) > 0

\* -1, 0 or 1 as x is negative, a zero or positive.
Sgn(x) == IF IsZero(x) THEN 0 ELSE IF x.neg THEN -1 ELSE 1

\* x > y on floats: -0.0 and 0.0 compare equal, nan compares FALSE.
Greater(x, y) ==
    IF IsNaN(x) \/ IsNaN(y) THEN FALSE
    ELSE IF Sgn(x) # Sgn(y) THEN Sgn(x) > Sgn(y)
    ELSE IF Sgn(x) = 0 THEN FALSE
    ELSE IF Sgn(x) = 1 THEN MagGreater(x, y) ELSE MagGreater(y, x)

\* x <= y on floats.
AtMost(x, y) == ~IsNaN(x) /\ ~IsNaN(y) /\ ~Greater(x, y)

\* Python's max(x, y): the first argument unless the second is greater.
Max2(x, y) == IF Greater(y, x) THEN y ELSE x

\* The greatest of best and the elements of xs from position i on, the first
\* of them when several are the greatest.
MaxStep(xs, st) == [i |-> st.i + 1, best |-> Max2(st.best, xs[st.i])]

RECURSIVE MaxLoop(_, _, _)
MaxLoop(xs, st, n) ==
    IF n <= 1 THEN (IF n = 1 THEN MaxStep(xs, st) ELSE st)
    ELSE LET half == MaxLoop(xs, st, n \div 2)
         IN  IF half = half THEN MaxLoop(xs, half, n - n \div 2) ELSE st

\* A variant that takes the first element instead of the greatest.
MaxOf_first(xs) == xs[1]

\* Python's max(list) on a non-empty list: the first of the greatest elements.
MaxOf(xs) == MaxLoop(xs, [i |-> 2, best |-> xs[1]], Len(xs) - 1).best

\* m * 2^e, the sum (sub = FALSE) or the difference of the magnitudes of x and
\* y with the sign neg, for finite x and y and |x| >= |y|.
Aligned(neg, sub, x, y, e) ==
    RoundDouble(neg,
                IF sub THEN BigSub(BigShl(x.mant, x.exp - e), BigShl(y.mant, y.exp - e))
                ELSE BigAdd(BigShl(x.mant, x.exp - e), BigShl(y.mant, y.exp - e)),
                e, FALSE)

\* x + y for finite x and y of the same sign neg.
SumMag(neg, x, y) == Aligned(neg, FALSE, x, y, Smaller(x.exp, y.exp))

\* x - y with the sign neg, for finite x and y and |x| >= |y|.
DiffMag(neg, x, y) == Aligned(neg, TRUE, x, y, Smaller(x.exp, y.exp))

\* x + y for finite x and y of opposite signs that compare as c in magnitude.
Cancel(x, y, c) ==
    IF c = 0 THEN Zero
    ELSE IF c > 0 THEN DiffMag(x.neg, x, y) ELSE DiffMag(y.neg, y, x)

\* x + y on floats.
Plus(x, y) ==
    IF IsNaN(x) \/ IsNaN(y) THEN NaN
    ELSE IF x.cls = "inf"
    THEN (IF y.cls = "inf" /\ x.neg # y.neg THEN NaN ELSE x)
    ELSE IF y.cls = "inf" THEN y
    ELSE IF x.neg = y.neg THEN SumMag(x.neg, x, y)
    ELSE IF IsZero(y) THEN (IF IsZero(x) THEN Zero ELSE x)
    ELSE IF IsZero(x) THEN y
    ELSE Cancel(x, y, CmpMag(x, y))

\* x - y on floats.
Minus(x, y) == Plus(x, [y EXCEPT !.neg = ~y.neg])

\* x * k on floats, for a natural k of at most 2^15.
Times(x, k) ==
    IF x.cls # "fin" THEN x
    ELSE RoundDouble(x.neg, BigTimes(x.mant, k), x.exp, FALSE)

\* The double nearest to the quotient d.q with a remainder d.r, times 2^k.
RoundDiv(neg, d, k) == RoundDouble(neg, d.q, k, d.r # <<>>)

\* x / y on floats, for y other than a zero.
Quotient(x, y) ==
    IF IsNaN(x) \/ IsNaN(y) THEN NaN
    ELSE IF x.cls = "inf"
    THEN (IF y.cls = "inf" THEN NaN ELSE Inf(x.neg # y.neg))
    ELSE IF y.cls = "inf" \/ IsZero(x) THEN Finite(x.neg # y.neg, <<>>, 0)
    ELSE RoundDiv(x.neg # y.neg,
                  BigDivMod(BigShl(x.mant, 56 + BigBits(y.mant)), y.mant),
                  x.exp - y.exp - (56 + BigBits(y.mant)))
---------------------------------------------------------------------------
(* float(text), str(number) and format(number, ',.2f')                      *)

RECURSIVE IntOf(_)
\* The integer a sequence of digits writes ("" writes 0).
IntOf(ds) ==
    IF ds = <<>> THEN 0
    ELSE 10 * IntOf(SubSeq(ds, 1, Len(ds) - 1)) + DigitVal(ds[Len(ds)])

RECURSIVE DigitsOf(_)
\* The decimal digits of a natural number.
DigitsOf(n) ==
    IF n < 10 THEN <<DigitChar(n)>>
    ELSE DigitsOf(n \div 10) \o <<DigitChar(n % 10)>>

RECURSIVE PadLeft(_, _)
\* ds with "0" put in front until it has n digits.
PadLeft(ds, n) == IF Len(ds) >= n THEN ds ELSE PadLeft(<<"0">> \o ds, n)

Zeros(n) == [i \in 1..n |-> "0"]

\* The last position of the longest run of digits of s that starts at p
\* (p - 1 when s[p] is no digit): the positions from p up to it hold digits
\* and the next one does not.
DigitRunEnd(s, p) ==
    (CHOOSE q \in p..(Len(s) + 1) :
        \A i \in p..q : (i <= Len(s) /\ s[i] \in Digit) <=> (i < q)) - 1

\* Four more digits of ds, those up to position st.i + 3 (fewer in the first
\* round, which begins before position 1), added to the number st.acc.
DigitsStep(ds, st) ==
    [i |-> st.i + 4,
     acc |-> BigAdd(BigTimes(st.acc, 10000),
                    BigOf(IntOf(SubSeq(ds, Larger(st.i, 1), st.i + 3))))]

RECURSIVE DigitsLoop(_, _, _)
DigitsLoop(ds, st, n) ==
    IF n <= 1 THEN (IF n = 1 THEN DigitsStep(ds, st) ELSE st)
    ELSE LET half == DigitsLoop(ds, st, n \div 2)
         IN  IF half = half THEN DigitsLoop(ds, half, n - n \div 2) ELSE st

\* The natural number a sequence of digits writes: its first Len(ds) % 4
\* digits, then the digits four by four.
BigOfDigits(ds) ==
    DigitsLoop(ds, [i |-> (Len(ds) % 4) - 3, acc |-> <<>>], Len(ds) \div 4 + 1).acc

\* The exponents float() tells apart: beyond MaxExponent every text is read
\* as an infinity or a zero.
MaxExponent == 100000

\* The digits of value 0.
ZeroDigits == {DigitRuns[k][1] : k \in 1..Len(DigitRuns)}

\* The integer the digits sig write, held at MaxExponent.
Capped(sig) ==
    IF Len(sig) > 6 THEN MaxExponent ELSE Smaller(IntOf(sig), MaxExponent)

\* The integer the digits of ds write, held at MaxExponent.
ExponentOf(ds) == Capped(LStripOf(ds, ZeroDigits))

\* The characters of s in lower case, for the letters of "infinity" and "nan".
Lower(s) ==
    [i \in 1..Len(s) |->
        CASE s[i] = "I" -> "i" [] s[i] = "N" -> "n" [] s[i] = "F" -> "f"
          [] s[i] = "T" -> "t" [] s[i] = "Y" -> "y" [] s[i] = "A" -> "a"
          [] OTHER -> s[i]]

\* float() skips the white space around its text.
FloatLStrip(s) == LStripOf(s, FloatSpace)

FloatRStrip(s) == RStripOf(s, FloatSpace)

\* An underscore of the argument of float() stands between two digits.
UnderscoresOk(s) ==
    \A i \in 1..Len(s) :
       s[i] = "_" => /\ 1 < i /\ i < Len(s)
                     /\ {s[i - 1], s[i + 1]} \subseteq Digit

\* The position of the first digit of the exponent that follows position f
\* of b, after an "e" or "E" and a sign if there is one; 0 when no exponent
\* follows.
ExpStart(b, f) ==
    IF f + 1 <= Len(b) /\ b[f + 1] \in {"e", "E"}
    THEN (IF f + 2 <= Len(b) /\ b[f + 2] \in {"+", "-"} THEN f + 3 ELSE f + 2)
    ELSE 0

\* The exponent written at positions x..xe of b (none for x = 0), negative
\* when a "-" stands before it.
ExpValue(b, x, xe) ==
    IF x = 0 THEN 0
    ELSE IF b[x - 1] = "-" THEN -ExponentOf(SubSeq(b, x, xe))
    ELSE ExponentOf(SubSeq(b, x, xe))

\* The digits of b after the point: those from position d + 2 to f.
FracDigits(b, d, f) == IF f >= d + 2 THEN SubSeq(b, d + 2, f) ELSE <<>>

\* The number body reads, its digits before the point ending at d, those
\* after it at f (f = d: no point), its exponent at x..xe (x = 0: none, and
\* xe = f): there is a digit, an exponent has one, and the text ends there.
\* [ok, val]: val the double nearest to the decimal written.
FloatRead(neg, b, d, f, x, xe) ==
    IF (d >= 1 \/ f >= d + 2) /\ xe = Len(b) /\ (x > 0 => xe >= x)
    THEN [ok |-> TRUE,
          val |-> DecToDouble(neg,
                              BigOfDigits(SubSeq(b, 1, d) \o FracDigits(b, d, f)),
                              ExpValue(b, x, xe) - Larger(f - d - 1, 0))]
    ELSE [ok |-> FALSE, val |-> NoneNum]

\* FloatRead once the start x of the exponent is known.
FloatExp(neg, b, d, f, x) ==
    FloatRead(neg, b, d, f, x, IF x > 0 THEN DigitRunEnd(b, x) ELSE f)

\* FloatRead once the end f of the digits after the point is known.
FloatFrac(neg, b, d, f) == FloatExp(neg, b, d, f, ExpStart(b, f))

\* FloatRead once the end d of the digits before the point is known.
FloatPoint(neg, b, d) ==
    FloatFrac(neg, b, d,
              IF d + 1 <= Len(b) /\ b[d + 1] = "." THEN DigitRunEnd(b, d + 2)
              ELSE d)

\* The number body reads: digits, a point and digits (one of the two runs of
\* digits may be empty), then an exponent, up to the end of the text.
FloatBody(neg, b) == FloatPoint(neg, b, DigitRunEnd(b, 1))

\* float() of a text without its sign: "inf", "infinity" or "nan" in any
\* case (low is body in lower case), or a number.
FloatNamed(neg, body, low) ==
    IF low \in {<<"i", "n", "f">>, <<"i", "n", "f", "i", "n", "i", "t", "y">>}
    THEN [ok |-> TRUE, val |-> Inf(neg)]
    ELSE IF low = <<"n", "a", "n">> THEN [ok |-> TRUE, val |-> NaN]
    ELSE FloatBody(neg, body)

\* float() of a text without its sign.
FloatUnsigned(neg, body) == FloatNamed(neg, body, Lower(body))

\* float() of a text t with no white space around it: a sign, then the rest.
FloatSigned(t) ==
    FloatUnsigned(t # <<>> /\ t[1] = "-",
                  IF t # <<>> /\ t[1] \in {"-", "+"} THEN Tail(t) ELSE t)

\* float(s) for a str s: [ok, val]; ok = FALSE: ValueError.  Underscores
\* between digits are dropped, white space around is skipped, then a sign and
\* "inf", "infinity", "nan" in any case, or a decimal number with an
\* optional exponent, its digits any decimal digits.
PyFloat(s) ==
    IF ~UnderscoresOk(s) THEN [ok |-> FALSE, val |-> NoneNum]
    ELSE FloatSigned(FloatRStrip(FloatLStrip(Remove(s, "_"))))

\* r.q, or r.q - 1 when it is odd and stands for a tie (the division left no
\* remainder).
TieToEven(r) == IF ~r.inexact /\ BigOdd(r.q) THEN BigSub(r.q, <<1>>) ELSE r.q

\* n \div (2^(k + 1) * 10^j), a tie going to the even.
HalfOf(n, j, k) ==
    TieToEven(DivPow10(BigShr(n, k + 1), j, ~BigLowZero(n, k + 1)))

\* The integer nearest to |x| * 10^s, a tie to the even one, for a finite x:
\* with |x| * 10^s = a / (2^k * 10^j), the half of 2 * a + 2^k * 10^j.
Nearest(x, s) ==
    HalfOf(BigAdd(BigTwice(BigShl(BigTimesPow10(x.mant, Larger(s, 0)),
                                  Larger(x.exp, 0)), 0),
                  BigShl(BigTimesPow10(<<1>>, Larger(-s, 0)), Larger(-x.exp, 0))),
           Larger(-s, 0), Larger(-x.exp, 0))

\* |x| >= 10^j for a finite x # 0.
AtLeastPow10(x, j) ==
    BigCmp(BigShl(BigTimesPow10(x.mant, Larger(-j, 0)), Larger(x.exp, 0)),
           BigShl(BigTimesPow10(<<1>>, Larger(j, 0)), Larger(-x.exp, 0))) >= 0

RECURSIVE Exp10From(_, _)
Exp10From(x, e) == IF AtLeastPow10(x, e + 1) THEN Exp10From(x, e + 1) ELSE e

\* The decimal exponent e of a finite x # 0: 10^e <= |x| < 10^(e + 1),
\* searched upwards from an estimate below it (0.30103 is above log10(2),
\* and 2^(Top - 1) <= |x|).
Exp10(x) == Exp10From(x, ((Top(x) - 1) * 30103) \div 100000 - 2)

\* c * 10^-s reads back as |x|.
RoundTrips(x, c, s) == DecToDouble(FALSE, c, -s) = Abs(x)

RECURSIVE Shortest(_, _)
\* Shortest for the integer n nearest to |x| * 10^s.  Only beside a power of
\* two can a neighbour of the nearest decimal read back when the nearest
\* does not.
ShortestNear(x, s, n) ==
    IF RoundTrips(x, n, s) THEN [c |-> n, s |-> s]
    ELSE IF x.mant = <<1>> /\ RoundTrips(x, BigAdd(n, <<1>>), s)
    THEN [c |-> BigAdd(n, <<1>>), s |-> s]
    ELSE IF x.mant = <<1>> /\ n # <<>> /\ RoundTrips(x, BigSub(n, <<1>>), s)
    THEN [c |-> BigSub(n, <<1>>), s |-> s]
    ELSE Shortest(x, s + 1)

\* The digits repr() writes for a finite x # 0, as [c, s] with c * 10^-s the
\* decimal of fewest digits that reads back as |x| (the nearest to |x| of
\* them), searched from s decimals on.
Shortest(x, s) == ShortestNear(x, s, Nearest(x, s))

\* ds without the zeros at its end, for ds that holds another digit.
DropZeros(ds) == RStripOf(ds, {"0"})

\* repr of a finite x # 0 without its sign, from its digits ds and the
\* number pt of them before the point: plain for -4 < pt <= 16, else with an
\* exponent of two digits or more.
ReprDigits(ds, pt) ==
    IF pt > 16 \/ pt < -3
    THEN <<ds[1]>> \o (IF Len(ds) > 1 THEN <<".">> \o Tail(ds) ELSE <<>>)
         \o <<"e", IF pt > 0 THEN "+" ELSE "-">>
         \o PadLeft(DigitsOf(IF pt > 0 THEN pt - 1 ELSE 1 - pt), 2)
    ELSE IF pt <= 0 THEN <<"0", ".">> \o Zeros(-pt) \o ds
    ELSE IF pt >= Len(ds) THEN ds \o Zeros(pt - Len(ds)) \o <<".", "0">>
    ELSE SubSeq(ds, 1, pt) \o <<".">> \o SubSeq(ds, pt + 1, Len(ds))

\* repr of the decimal the digits all write with s of them after the point.
ReprDecimal(all, s) == ReprDigits(DropZeros(all), Len(all) - s)

\* repr of the decimal r.c * 10^-r.s.
ReprShortest(r) == ReprDecimal(BigDecimal(r.c), r.s)

\* str(x) for a float x: repr's shortest form.
PyStr(x) ==
    (IF x.neg /\ x.cls # "nan" THEN <<"-">> ELSE <<>>)
    \o (CASE x.cls = "nan" -> <<"n", "a", "n">>
          [] x.cls = "inf" -> <<"i", "n", "f">>
          [] IsZero(x) -> <<"0", ".", "0">>
          [] OTHER -> ReprShortest(Shortest(x, -Exp10(x))))

\* The ',' option of format(): a comma before every group of three digits,
\* counted from the right.  The character j of the text stands r places from
\* its right end, a comma when r % 4 = 3, else the digit r - r \div 4 places
\* from the right end of ds.
Grouped(ds) ==
    [j \in 1..(Len(ds) + (Len(ds) - 1) \div 3) |->
        LET r == Len(ds) + (Len(ds) - 1) \div 3 - j
        IN  IF r % 4 = 3 THEN "," ELSE ds[Len(ds) - (r - r \div 4)]]

\* The digits ds, three of them or more, with a point before the last two
\* and commas in the rest.
Money(neg, ds) ==
    (IF neg THEN <<"-">> ELSE <<>>)
    \o Grouped(SubSeq(ds, 1, Len(ds) - 2))
    \o <<".">>
    \o SubSeq(ds, Len(ds) - 1, Len(ds))

\* The text of format(v, ',.2f') where |v| rounds to cents hundredths, cents
\* being a sequence of digits.
Fmt2Cents(neg, cents) == Money(neg, PadLeft(cents, 3))

\* f"{x:,.2f}" for a float x: the double itself, not the decimal that wrote
\* it, is rounded to two decimals, a tie to the even.
Fmt2(x) ==
    CASE x.cls = "nan" -> <<"n", "a", "n">>
      [] x.cls = "inf" -> (IF x.neg THEN <<"-">> ELSE <<>>) \o <<"i", "n", "f">>
      [] OTHER -> Fmt2Cents(x.neg, BigDecimal(Nearest(x, 2)))

\* f"{x:.2f}" for a float x: as Fmt2 without the commas.
FmtPct(x) == Remove(Fmt2(x), ",")
---------------------------------------------------------------------------
(* Argument values and _extract_number                                     *)

\* Argument values.  kind "str": the str chars.  kind "none": None.  kind
\* "obj": an object of another type, given by what its methods do: str()
\* returns chars; bool() raises ValueError(err), as for a pandas Series or a
\* numpy array of several elements; float() returns fv, or raises
\* TypeError(ferr) when fv is None.
Str(s) == [kind |-> "str", chars |-> s, fv |-> NoneNum, err |-> <<>>, ferr |-> <<>>]

PyNone == [kind |-> "none", chars |-> <<>>, fv |-> NoneNum, err |-> <<>>, ferr |-> <<>>]

Obj(text, fv, err, ferr) == [kind |-> "obj", chars |-> text, fv |-> fv, err |-> err, ferr |-> ferr]

\* kind "bad": an object whose str() raises ValueError(err), so that the
\* f-string of a narration cannot render it, and whose float() raises
\* TypeError(ferr).
Bad(err, ferr) == [kind |-> "bad", chars |-> <<>>, fv |-> NoneNum, err |-> err, ferr |-> ferr]

\* MatchBody for the run of digits that ends at d and the run after the
\* point that ends at f (f = d: no point follows).
MatchEnd(p, d, f) == IF f >= d + 2 THEN f ELSE IF d >= p THEN d ELSE 0

\* MatchBody once the end d of the run of digits at p is known.
MatchPoint(s, p, d) ==
    MatchEnd(p, d, IF d + 1 <= Len(s) /\ s[d + 1] = "."
                   THEN DigitRunEnd(s, d + 2) ELSE d)

\* Where \d*\.?\d+ matches from position p, as the backtracking matcher
\* finds it: \d* takes the whole run of digits D at p; if a point and a digit
\* follow, the match is D, the point and the run of digits after it;
\* otherwise \d* gives its last digit back to \d+ and the match is D, which
\* must then hold a digit.  0: no match at p.
MatchBody(s, p) == MatchPoint(s, p, DigitRunEnd(s, p))

\* Where number_pattern = [-+]?\d*\.?\d+ matches from position i (0: nowhere).
\* [-+]? first takes a sign that is there; without a number after it the
\* matcher retries without the sign, and then fails on the sign character.
MatchAt(s, i) == MatchBody(s, IF s[i] \in {"-", "+"} THEN i + 1 ELSE i)

\* The search after position st.i, where a match ends at e (0: no match):
\* the match is taken and the search goes on after it, else one character
\* further.
Found(s, st, e) ==
    IF e > 0 THEN [i |-> e + 1, out |-> Append(st.out, SubSeq(s, st.i, e))]
    ELSE [i |-> st.i + 1, out |-> st.out]

\* One step of re.findall from position st.i.
FindStep(s, st) == IF st.i > Len(s) THEN st ELSE Found(s, st, MatchAt(s, st.i))

RECURSIVE FindLoop(_, _, _)
FindLoop(s, st, n) ==
    IF n <= 1 THEN (IF n = 1 THEN FindStep(s, st) ELSE st)
    ELSE LET half == FindLoop(s, st, n \div 2)
         IN  IF half = half THEN FindLoop(s, half, n - n \div 2) ELSE st

\* re.findall(number_pattern, s): the matches left to right, none
\* overlapping.
FindAll(s) == FindLoop(s, [i |-> 1, out |-> <<>>], Len(s)).out

\* str(text).replace('$', '').replace(',', '').replace(EUR, '')
\*          .replace(GBP, '').strip()
Cleaned(s) ==
    Strip(Remove(Remove(Remove(Remove(s, "$"), ","), "U+20AC"), "U+00A3"))

\* [float(match) for match in matches if match]; a match float() cannot read
\* raises ValueError, which _extract_number swallows (result None).
Floats(matches) == [i \in 1..Len(matches) |-> PyFloat(matches[i])]

\* max(numbers) for the matches float() read: any match float() cannot read
\* raises ValueError, which _extract_number swallows (result None).
Largest(numbers) ==
    IF \A i \in 1..Len(numbers) : numbers[i].ok
    THEN MaxOf([i \in 1..Len(numbers) |-> numbers[i].val])
    ELSE NoneNum

\* Lines 252-257: the largest of the numbers matched, None without a match.
NumberIn(matches) ==
    IF matches # <<>> THEN Largest(Floats(matches)) ELSE NoneNum

\* _extract_number(text): [raised, val].  raised: the truth test of line 243
\* raised, outside the try of line 246.  val: the number, or None.
_extract_number(text) ==
    IF text.kind = "obj" THEN [raised |-> TRUE, val |-> NoneNum]
    ELSE IF text.kind = "none" \/ text.chars = <<>>
    THEN [raised |-> FALSE, val |-> NoneNum]
    ELSE [raised |-> FALSE, val |-> NumberIn(FindAll(Cleaned(text.chars)))]

---------------------------------------------------------------------------
(* The string literals of the source, and the messages of the exceptions  *)
(* the modelled statements raise                                           *)

\* reconciliation_tracer.py:204  'MATCH'
L_MATCH ==
    <<"M", "A", "T", "C", "H">>

\* reconciliation_tracer.py:207  'MISMATCH'
L_MISMATCH ==
    <<"M", "I", "S", "M", "A", "T", "C", "H">>

\* reconciliation_tracer.py:174  'MATCH: Invoice amount $'
L_MatchHead ==
    <<"M", "A", "T", "C", "H", ":", " ", "I", "n", "v", "o", "i", "c", "e", " ", "a", "m", "o",
      "u", "n", "t", " ", "$">>

\* reconciliation_tracer.py:174  ' matches spreadsheet amount $'
L_MatchMid ==
    <<" ", "m", "a", "t", "c", "h", "e", "s", " ", "s", "p", "r", "e", "a", "d", "s", "h", "e",
      "e", "t", " ", "a", "m", "o", "u", "n", "t", " ", "$">>

\* reconciliation_tracer.py:176  'MISMATCH: Invoice amount $'
L_MismatchHead ==
    <<"M", "I", "S", "M", "A", "T", "C", "H", ":", " ", "I", "n", "v", "o", "i", "c", "e", " ",
      "a", "m", "o", "u", "n", "t", " ", "$">>

\* reconciliation_tracer.py:176  ' does not match spreadsheet amount $'
L_MismatchMid ==
    <<" ", "d", "o", "e", "s", " ", "n", "o", "t", " ", "m", "a", "t", "c", "h", " ", "s", "p",
      "r", "e", "a", "d", "s", "h", "e", "e", "t", " ", "a", "m", "o", "u", "n", "t", " ", "$">>

\* reconciliation_tracer.py:174  ' (difference: $'
L_DiffOpen ==
    <<" ", "(", "d", "i", "f", "f", "e", "r", "e", "n", "c", "e", ":", " ", "$">>

\* reconciliation_tracer.py:184  'Error comparing amounts: '
L_ErrorComparing ==
    <<"E", "r", "r", "o", "r", " ", "c", "o", "m", "p", "a", "r", "i", "n", "g", " ", "a", "m",
      "o", "u", "n", "t", "s", ":", " ">>

\* reconciliation_tracer.py:205  'YES'
L_YES ==
    <<"Y", "E", "S">>

\* reconciliation_tracer.py:208  'NO'
L_NO ==
    <<"N", "O">>

\* reconciliation_tracer.py:211  'INCONCLUSIVE'
L_INCONCLUSIVE ==
    <<"I", "N", "C", "O", "N", "C", "L", "U", "S", "I", "V", "E">>

\* reconciliation_tracer.py:206  'The amounts from the invoice and spreadsheet match within acceptable tolerance.'
L_ReasonMatch ==
    <<"T", "h", "e", " ", "a", "m", "o", "u", "n", "t", "s", " ", "f", "r", "o", "m", " ", "t",
      "h", "e", " ", "i", "n", "v", "o", "i", "c", "e", " ", "a", "n", "d", " ", "s", "p", "r",
      "e", "a", "d", "s", "h", "e", "e", "t", " ", "m", "a", "t", "c", "h", " ", "w", "i", "t",
      "h", "i", "n", " ", "a", "c", "c", "e", "p", "t", "a", "b", "l", "e", " ", "t", "o", "l",
      "e", "r", "a", "n", "c", "e", ".">>

\* reconciliation_tracer.py:209  'The amounts from the invoice and spreadsheet do not match. Investigation required.'
L_ReasonMismatch ==
    <<"T", "h", "e", " ", "a", "m", "o", "u", "n", "t", "s", " ", "f", "r", "o", "m", " ", "t",
      "h", "e", " ", "i", "n", "v", "o", "i", "c", "e", " ", "a", "n", "d", " ", "s", "p", "r",
      "e", "a", "d", "s", "h", "e", "e", "t", " ", "d", "o", " ", "n", "o", "t", " ", "m", "a",
      "t", "c", "h", ".", " ", "I", "n", "v", "e", "s", "t", "i", "g", "a", "t", "i", "o", "n",
      " ", "r", "e", "q", "u", "i", "r", "e", "d", ".">>

\* reconciliation_tracer.py:212  'Unable to determine match due to data processing errors.'
L_ReasonError ==
    <<"U", "n", "a", "b", "l", "e", " ", "t", "o", " ", "d", "e", "t", "e", "r", "m", "i", "n",
      "e", " ", "m", "a", "t", "c", "h", " ", "d", "u", "e", " ", "t", "o", " ", "d", "a", "t",
      "a", " ", "p", "r", "o", "c", "e", "s", "s", "i", "n", "g", " ", "e", "r", "r", "o", "r",
      "s", ".">>

\* reconciliation_tracer.py:267  'Amounts are reconciled. Proceed with processing.'
L_RecProceed ==
    <<"A", "m", "o", "u", "n", "t", "s", " ", "a", "r", "e", " ", "r", "e", "c", "o", "n", "c",
      "i", "l", "e", "d", ".", " ", "P", "r", "o", "c", "e", "e", "d", " ", "w", "i", "t", "h",
      " ", "p", "r", "o", "c", "e", "s", "s", "i", "n", "g", ".">>

\* reconciliation_tracer.py:269  'Amounts do not match. Review source documents and resolve discrepancies before proceeding.'
L_RecReview ==
    <<"A", "m", "o", "u", "n", "t", "s", " ", "d", "o", " ", "n", "o", "t", " ", "m", "a", "t",
      "c", "h", ".", " ", "R", "e", "v", "i", "e", "w", " ", "s", "o", "u", "r", "c", "e", " ",
      "d", "o", "c", "u", "m", "e", "n", "t", "s", " ", "a", "n", "d", " ", "r", "e", "s", "o",
      "l", "v", "e", " ", "d", "i", "s", "c", "r", "e", "p", "a", "n", "c", "i", "e", "s", " ",
      "b", "e", "f", "o", "r", "e", " ", "p", "r", "o", "c", "e", "e", "d", "i", "n", "g", ".">>

\* reconciliation_tracer.py:271  'Manual review required to determine data accuracy.'
L_RecManual ==
    <<"M", "a", "n", "u", "a", "l", " ", "r", "e", "v", "i", "e", "w", " ", "r", "e", "q", "u",
      "i", "r", "e", "d", " ", "t", "o", " ", "d", "e", "t", "e", "r", "m", "i", "n", "e", " ",
      "d", "a", "t", "a", " ", "a", "c", "c", "u", "r", "a", "c", "y", ".">>

\* reconciliation_tracer.py:219  '\nRECONCILIATION VERDICT: '
L_VerdictHead ==
    <<"\n", "R", "E", "C", "O", "N", "C", "I", "L", "I", "A", "T", "I", "O", "N", " ", "V", "E",
      "R", "D", "I", "C", "T", ":", " ">>

\* reconciliation_tracer.py:221  '\n\nANALYSIS:\n'
L_AnalysisHead ==
    <<"\n", "\n", "A", "N", "A", "L", "Y", "S", "I", "S", ":", "\n">>

\* reconciliation_tracer.py:224  '\n\nDETAILS:\n'
L_DetailsHead ==
    <<"\n", "\n", "D", "E", "T", "A", "I", "L", "S", ":", "\n">>

\* reconciliation_tracer.py:227  '\n\nRECOMMENDATION:\n'
L_RecommendationHead ==
    <<"\n", "\n", "R", "E", "C", "O", "M", "M", "E", "N", "D", "A", "T", "I", "O", "N", ":",
      "\n">>

\* reconciliation_tracer.py:152  'could not convert string to float: '
L_CouldNotConvert ==
    <<"c", "o", "u", "l", "d", " ", "n", "o", "t", " ", "c", "o", "n", "v", "e", "r", "t", " ",
      "s", "t", "r", "i", "n", "g", " ", "t", "o", " ", "f", "l", "o", "a", "t", ":", " ">>

\* reconciliation_tracer.py:105  '\n\U0001f50d AMOUNT PARSING\n================\nInvoice Data: '
L_ParseHead ==
    <<"\n", "U+1F50D", " ", "A", "M", "O", "U", "N", "T", " ", "P", "A", "R", "S", "I", "N", "G",
      "\n", "=", "=", "=", "=", "=", "=", "=", "=", "=", "=", "=", "=", "=", "=", "=", "=", "\n",
      "I", "n", "v", "o", "i", "c", "e", " ", "D", "a", "t", "a", ":", " ">>

\* reconciliation_tracer.py:109  '\nSpreadsheet Data: '
L_ParseSheet ==
    <<"\n", "S", "p", "r", "e", "a", "d", "s", "h", "e", "e", "t", " ", "D", "a", "t", "a", ":",
      " ">>

\* reconciliation_tracer.py:111  '\n\nExtracting numerical values for comparison...\n'
L_ParseExtracting ==
    <<"\n", "\n", "E", "x", "t", "r", "a", "c", "t", "i", "n", "g", " ", "n", "u", "m", "e", "r",
      "i", "c", "a", "l", " ", "v", "a", "l", "u", "e", "s", " ", "f", "o", "r", " ", "c", "o",
      "m", "p", "a", "r", "i", "s", "o", "n", ".", ".", ".", "\n">>

\* reconciliation_tracer.py:120  '\u2022 Invoice amount extracted: '
L_ParseInvoice ==
    <<"U+2022", " ", "I", "n", "v", "o", "i", "c", "e", " ", "a", "m", "o", "u", "n", "t", " ",
      "e", "x", "t", "r", "a", "c", "t", "e", "d", ":", " ">>

\* reconciliation_tracer.py:124  '\u2022 Spreadsheet amount extracted: '
L_ParseSpreadsheet ==
    <<"U+2022", " ", "S", "p", "r", "e", "a", "d", "s", "h", "e", "e", "t", " ", "a", "m", "o",
      "u", "n", "t", " ", "e", "x", "t", "r", "a", "c", "t", "e", "d", ":", " ">>

\* reconciliation_tracer.py:130  '\n\u2705 Amount parsing completed\n'
L_ParseDone ==
    <<"\n", "U+2705", " ", "A", "m", "o", "u", "n", "t", " ", "p", "a", "r", "s", "i", "n", "g",
      " ", "c", "o", "m", "p", "l", "e", "t", "e", "d", "\n">>

\* reconciliation_tracer.py:133  '\n\u274c Error during amount parsing: '
L_ParseError ==
    <<"\n", "U+274C", " ", "E", "r", "r", "o", "r", " ", "d", "u", "r", "i", "n", "g", " ", "a",
      "m", "o", "u", "n", "t", " ", "p", "a", "r", "s", "i", "n", "g", ":", " ">>

\* reconciliation_tracer.py:142  '\n\u2696\ufe0f AMOUNT COMPARISON\n===================\nInvoice Amount: $'
L_CompareHead ==
    <<"\n", "U+2696", "U+FE0F", " ", "A", "M", "O", "U", "N", "T", " ", "C", "O", "M", "P", "A",
      "R", "I", "S", "O", "N", "\n", "=", "=", "=", "=", "=", "=", "=", "=", "=", "=", "=", "=",
      "=", "=", "=", "=", "=", "=", "=", "\n", "I", "n", "v", "o", "i", "c", "e", " ", "A", "m",
      "o", "u", "n", "t", ":", " ", "$">>

\* reconciliation_tracer.py:146  '\nSpreadsheet Amount: $'
L_CompareSheet ==
    <<"\n", "S", "p", "r", "e", "a", "d", "s", "h", "e", "e", "t", " ", "A", "m", "o", "u", "n",
      "t", ":", " ", "$">>

\* reconciliation_tracer.py:148  '\n\nPerforming comparison analysis...\n'
L_ComparePerforming ==
    <<"\n", "\n", "P", "e", "r", "f", "o", "r", "m", "i", "n", "g", " ", "c", "o", "m", "p", "a",
      "r", "i", "s", "o", "n", " ", "a", "n", "a", "l", "y", "s", "i", "s", ".", ".", ".", "\n">>

\* reconciliation_tracer.py:155  '\u2022 Invoice numerical value: '
L_CompareInvoiceVal ==
    <<"U+2022", " ", "I", "n", "v", "o", "i", "c", "e", " ", "n", "u", "m", "e", "r", "i", "c",
      "a", "l", " ", "v", "a", "l", "u", "e", ":", " ">>

\* reconciliation_tracer.py:156  '\u2022 Spreadsheet numerical value: '
L_CompareSheetVal ==
    <<"U+2022", " ", "S", "p", "r", "e", "a", "d", "s", "h", "e", "e", "t", " ", "n", "u", "m",
      "e", "r", "i", "c", "a", "l", " ", "v", "a", "l", "u", "e", ":", " ">>

\* reconciliation_tracer.py:162  '\u2022 Absolute difference: $'
L_CompareAbs ==
    <<"U+2022", " ", "A", "b", "s", "o", "l", "u", "t", "e", " ", "d", "i", "f", "f", "e", "r",
      "e", "n", "c", "e", ":", " ", "$">>

\* reconciliation_tracer.py:163  '\u2022 Percentage difference: '
L_ComparePct ==
    <<"U+2022", " ", "P", "e", "r", "c", "e", "n", "t", "a", "g", "e", " ", "d", "i", "f", "f",
      "e", "r", "e", "n", "c", "e", ":", " ">>

\* reconciliation_tracer.py:169  '\u2022 Tolerance threshold: '
L_CompareTol ==
    <<"U+2022", " ", "T", "o", "l", "e", "r", "a", "n", "c", "e", " ", "t", "h", "r", "e", "s",
      "h", "o", "l", "d", ":", " ">>

\* reconciliation_tracer.py:170  '\u2022 Amounts match: '
L_CompareMatch ==
    <<"U+2022", " ", "A", "m", "o", "u", "n", "t", "s", " ", "m", "a", "t", "c", "h", ":", " ">>

\* reconciliation_tracer.py:179  '\n\U0001f4ca Comparison result: '
L_CompareResult ==
    <<"\n", "U+1F4CA", " ", "C", "o", "m", "p", "a", "r", "i", "s", "o", "n", " ", "r", "e", "s",
      "u", "l", "t", ":", " ">>

\* reconciliation_tracer.py:182  '\n\u274c Error during amount comparison: '
L_CompareError ==
    <<"\n", "U+274C", " ", "E", "r", "r", "o", "r", " ", "d", "u", "r", "i", "n", "g", " ", "a",
      "m", "o", "u", "n", "t", " ", "c", "o", "m", "p", "a", "r", "i", "s", "o", "n", ":", " ">>

\* reconciliation_tracer.py:192  '\n\u2696\ufe0f VERDICT GENERATION\n====================\nReconciliation Result: '
L_VerdictGenHead ==
    <<"\n", "U+2696", "U+FE0F", " ", "V", "E", "R", "D", "I", "C", "T", " ", "G", "E", "N", "E",
      "R", "A", "T", "I", "O", "N", "\n", "=", "=", "=", "=", "=", "=", "=", "=", "=", "=", "=",
      "=", "=", "=", "=", "=", "=", "=", "=", "=", "\n", "R", "e", "c", "o", "n", "c", "i", "l",
      "i", "a", "t", "i", "o", "n", " ", "R", "e", "s", "u", "l", "t", ":", " ">>

\* reconciliation_tracer.py:197  '\n\nGenerating final verdict...\n'
L_VerdictGenerating ==
    <<"\n", "\n", "G", "e", "n", "e", "r", "a", "t", "i", "n", "g", " ", "f", "i", "n", "a", "l",
      " ", "v", "e", "r", "d", "i", "c", "t", ".", ".", ".", "\n">>

\* reconciliation_tracer.py:214  '\u2022 Final verdict: '
L_VerdictFinal ==
    <<"U+2022", " ", "F", "i", "n", "a", "l", " ", "v", "e", "r", "d", "i", "c", "t", ":", " ">>

\* reconciliation_tracer.py:215  '\u2022 Reasoning: '
L_VerdictReasoning ==
    <<"U+2022", " ", "R", "e", "a", "s", "o", "n", "i", "n", "g", ":", " ">>

\* reconciliation_tracer.py:232  '\n\u2705 Verdict generation completed\n'
L_VerdictDone ==
    <<"\n", "U+2705", " ", "V", "e", "r", "d", "i", "c", "t", " ", "g", "e", "n", "e", "r", "a",
      "t", "i", "o", "n", " ", "c", "o", "m", "p", "l", "e", "t", "e", "d", "\n">>

\* reconciliation_tracer.py:170  'True'
L_True ==
    <<"T", "r", "u", "e">>

\* reconciliation_tracer.py:170  'False'
L_False ==
    <<"F", "a", "l", "s", "e">>

\* reconciliation_tracer.py:120  'None'
L_None ==
    <<"N", "o", "n", "e">>

\* reconciliation_tracer.py:152  "float() argument must be a string or a real number, not 'NoneType'"
L_FloatNoneError ==
    <<"f", "l", "o", "a", "t", "(", ")", " ", "a", "r", "g", "u", "m", "e", "n", "t", " ", "m",
      "u", "s", "t", " ", "b", "e", " ", "a", " ", "s", "t", "r", "i", "n", "g", " ", "o", "r",
      " ", "a", " ", "r", "e", "a", "l", " ", "n", "u", "m", "b", "e", "r", ",", " ", "n", "o",
      "t", " ", "'", "N", "o", "n", "e", "T", "y", "p", "e", "'">>

\* reconciliation_tracer.py:160  'float division by zero'
L_ZeroDivision ==
    <<"f", "l", "o", "a", "t", " ", "d", "i", "v", "i", "s", "i", "o", "n", " ", "b", "y", " ",
      "z", "e", "r", "o">>

\* reconciliation_tracer.py:336  'Error during reconciliation: '
L_ErrorDuring ==
    <<"E", "r", "r", "o", "r", " ", "d", "u", "r", "i", "n", "g", " ", "r", "e", "c", "o", "n",
      "c", "i", "l", "i", "a", "t", "i", "o", "n", ":", " ">>

---------------------------------------------------------------------------
(* Values of the workflow                                                  *)

\* An optional str: None, or the str text.
NoText == [some |-> FALSE, text |-> <<>>]
SomeText(s) == [some |-> TRUE, text |-> s]

\* An optional time stamp.
NoTime == [some |-> FALSE, t |-> 0]
SomeTime(t) == [some |-> TRUE, t |-> t]

\* The trace id made at clock second t: "reconciliation_trace_" and the
\* time to the second (%Y%m%d_%H%M%S), so one id per second.  NoTrace is
\* current_trace_id = None.
NoTrace == [some |-> FALSE, stamp |-> 0]
TraceId(t) == [some |-> TRUE, stamp |-> t]

\* str(v) of an argument value, as the f-strings of the narration render it.
PyText(v) ==
    CASE v.kind = "str"  -> v.chars
      [] v.kind = "none" -> L_None
      [] v.kind = "obj"  -> v.chars

\* str(v) returns: it raises for an Unprintable.
Renders(v) == v.kind # "bad"

\* str(x) of an extracted number, None included.
NumText(x) == IF x.none THEN L_None ELSE PyStr(x)

\* The quote repr() puts around s: the double quote when s holds a single
\* quote and no double quote, else the single quote.
QuoteOf(s) ==
    IF (\E i \in 1..Len(s) : s[i] = "'") /\ ~(\E i \in 1..Len(s) : s[i] = "\"")
    THEN "\"" ELSE "'"

\* What repr() writes for the character c between quotes q.
ReprChar(c, q) ==
    IF c = "\\" \/ c = q THEN <<"\\", c>>
    ELSE IF c \in NonPrintable
    THEN (CHOOSE e \in {Escapes[k] : k \in 1..Len(Escapes)} : e[1] = c)[2]
    ELSE <<c>>

\* One more character of s written between quotes q.
ReprStep(s, q, st) ==
    [i |-> st.i + 1, out |-> st.out \o ReprChar(s[st.i], q)]

RECURSIVE ReprLoop(_, _, _, _)
ReprLoop(s, q, st, n) ==
    IF n <= 1 THEN (IF n = 1 THEN ReprStep(s, q, st) ELSE st)
    ELSE LET half == ReprLoop(s, q, st, n \div 2)
         IN  IF half = half THEN ReprLoop(s, q, half, n - n \div 2) ELSE st

\* repr(s) between the quotes q.
Quoted(s, q) ==
    <<q>> \o ReprLoop(s, q, [i |-> 1, out |-> <<>>], Len(s)).out \o <<q>>

\* repr(s) of a str, as %R writes it in the message of float()'s ValueError.
Repr(s) == Quoted(s, QuoteOf(s))

\* float() of a str s given what PyFloat read: the ValueError names the str.
FloatRead_str(s, r) ==
    [ok |-> r.ok, val |-> r.val,
     msg |-> IF r.ok THEN <<>> ELSE L_CouldNotConvert \o Repr(s)]

\* float(v) of a state field: [ok, val, msg]; msg is str(e) of the
\* exception when ok is FALSE.
FloatOf(v) ==
    CASE v.kind = "str"  -> FloatRead_str(v.chars, PyFloat(v.chars))
      [] v.kind = "none" -> [ok |-> FALSE, val |-> NoneNum, msg |-> L_FloatNoneError]
      [] v.kind = "obj"  ->
            IF v.fv.none
            THEN [ok |-> FALSE, val |-> NoneNum, msg |-> v.ferr]
            ELSE [ok |-> TRUE, val |-> v.fv, msg |-> <<>>]
      [] v.kind = "bad"  -> [ok |-> FALSE, val |-> NoneNum, msg |-> v.ferr]

\* A variant that starts the dict anew with the one entry.
SetKey_fresh(d, k, v) == <<[key |-> k, text |-> v]>>

\* A dict with insertion order, as a sequence of [key, text]: d[k] = v.
SetKey(d, k, v) ==
    IF \E i \in 1..Len(d) : d[i].key = k
    THEN [i \in 1..Len(d) |-> IF d[i].key = k THEN [key |-> k, text |-> v] ELSE d[i]]
    ELSE Append(d, [key |-> k, text |-> v])

\* trace_data[id] = tr
Put(td, id, tr) ==
    [k \in (DOMAIN td) \cup {id} |-> IF k = id THEN tr ELSE td[k]]

NoFinalState ==
    [some |-> FALSE, workflow_step |-> "", has_error |-> FALSE,
     verdict |-> <<>>, reconciliation_result |-> <<>>]

\* The trace _create_trace_id stores at clock second t.  The keys
\* final_state, error and observability are not in the dict: NoFinalState,
\* NoText, <<>>.
NewTrace(t) ==
    [workflow_steps    |-> <<>>,
     start_time        |-> t,
     end_time          |-> NoTime,
     result            |-> NoText,
     state_transitions |-> <<>>,
     final_state       |-> NoFinalState,
     error             |-> NoText,
     observability     |-> <<>>]

\* What a read accessor returned: nothing asked yet.
NoOut == [op |-> "", found |-> FALSE, trace |-> NewTrace(0),
          observability |-> <<>>, metrics |-> <<>>,
          thinking |-> [parsing |-> <<>>, comparison |-> <<>>, verdict |-> <<>>],
          live_state |-> <<>>, asked |-> NoTrace,
          path |-> <<>>, exported |-> FALSE, raised |-> ""]

\* self.live_thinking as __init__ and reconcile_amounts set it.
BlankThinking == [parsing |-> <<>>, comparison |-> <<>>, verdict |-> <<>>]

\* A variant that leaves the trace id out of the initial state.
InitialState_noid(invoice_amount, spreadsheet_amount, trace_id) ==
    [invoice_amount        |-> invoice_amount,
     spreadsheet_amount    |-> spreadsheet_amount,
     reconciliation_result |-> <<>>,
     verdict               |-> <<>>,
     thinking_log          |-> <<>>,
     trace_id              |-> NoTrace,
     workflow_step         |-> "",
     error                 |-> <<>>]

\* initial_state of reconcile_amounts.
InitialState(invoice_amount, spreadsheet_amount, trace_id) ==
    [invoice_amount        |-> invoice_amount,
     spreadsheet_amount    |-> spreadsheet_amount,
     reconciliation_result |-> <<>>,
     verdict               |-> <<>>,
     thinking_log          |-> <<>>,
     trace_id              |-> trace_id,
     workflow_step         |-> "",
     error                 |-> <<>>]

\* A caller that has not called.  Beside the pc, the arguments, the state,
\* the return value and the exception of its call, a caller holds what the
\* statement it is in has read and not used yet: t, a reading of the clock;
\* key, a value of self.current_trace_id; thinking, the narration of the
\* stage; linked, whether the trace it found under key is still the one
\* stored there; live, whether the dict it read from self.live_thinking is
\* still the one the instance holds.
NoCall ==
    [pc    |-> "idle",
     state |-> InitialState(Str(<<>>), Str(<<>>), NoTrace),
     args  |-> [invoice_amount |-> Str(<<>>), spreadsheet_amount |-> Str(<<>>),
               trace_id |-> NoTrace],
     ret   |-> NoText,
     exc   |-> NoText,
     t        |-> 0,
     key      |-> NoTrace,
     thinking |-> <<>>,
     linked   |-> FALSE,
     live     |-> FALSE]

\* No second caller has called: the calls on the instance come one after the
\* other, and nothing runs between two statements of
\* a call.  The steps of one caller below take the statements of a stage, or
\* of the return of a call, together; the steps of two callers that share
\* the instance are taken access by access further down.
Alone == calls = <<NoCall, NoCall>>

---------------------------------------------------------------------------
(* The workflow graph of _build_workflow                                   *)

EntryPoint == "parse_amounts"

Edge(node) ==
    CASE node = "parse_amounts"    -> "compare_amounts"
      [] node = "compare_amounts"  -> "generate_verdict"
      [] node = "generate_verdict" -> "END"

---------------------------------------------------------------------------
(* _log_thinking: the narration goes to live_thinking and to the state's   *)
(* thinking_log, and a step record with a snapshot of the state is         *)
(* appended to the current trace (made first if there is none).            *)

\* A variant whose snapshot is taken of the state as the stage found it.
StepRecord_before(st, step_name, thinking) ==
    [step      |-> step_name,
     timestamp |-> now,
     thinking  |-> thinking,
     state_snapshot |->
        [workflow_step      |-> state.workflow_step,
         invoice_amount     |-> state.invoice_amount,
         spreadsheet_amount |-> state.spreadsheet_amount,
         verdict            |-> state.verdict]]

\* The step record _log_thinking appends.
StepRecord(st, step_name, thinking) ==
    [step      |-> step_name,
     timestamp |-> now,
     thinking  |-> thinking,
     state_snapshot |->
        [workflow_step      |-> st.workflow_step,
         invoice_amount     |-> st.invoice_amount,
         spreadsheet_amount |-> st.spreadsheet_amount,
         verdict            |-> st.verdict]]

\* reconciliation_tracer.py:66  'reconciliation_trace_'
L_TracePrefix ==
    <<"r", "e", "c", "o", "n", "c", "i", "l", "i", "a", "t", "i", "o", "n", "_", "t", "r", "a",
      "c", "e", "_">>

\* reconciliation_tracer.py:66  strftime('%Y%m%d_%H%M%S') of clock second 0,
\* without its two digits of seconds.
L_Midnight ==
    <<"2", "0", "2", "6", "0", "1", "0", "1", "_", "0", "0", "0", "0">>

\* Line 66: the text of a trace id; the clock stays within the first minute.
IdText(id) ==
    L_TracePrefix \o L_Midnight
        \o <<DigitChar(id.stamp \div 10), DigitChar(id.stamp % 10)>>

\* str(e) of the KeyError trace_data[id] raises for an id that is not
\* stored: the repr of the id.
KeyErrorText(id) == Repr(IdText(id))

\* No trace is stored under current_trace_id: another call has assigned the
\* id (line 67) and not stored its trace yet (lines 68-74).
Unstored == current_trace_id.some /\ current_trace_id \notin DOMAIN trace_data

\* Lines 79-80 and 67: there is no current trace id, so _log_thinking calls
\* _create_trace_id, which reads the clock and assigns the id.  The state is
\* as the stage left it; its narration is not stored yet.
_log_thinking_create(st) ==
    /\ ~current_trace_id.some
    /\ current_trace_id' = TraceId(now)
    /\ state' = st
    /\ UNCHANGED <<trace_data, live_thinking, exc>>

\* Lines 77-99 when line 79 finds a current trace id (a run has assigned
\* one at line 294 before its first stage).  Lines 83-84 store the
\* narration; line 87 appends the step record, its timestamp read from the
\* clock (line 89), to the trace stored under current_trace_id, and raises
\* KeyError (exc) when none is.
_log_thinking(st, step_name, thinking) ==
    \E id \in {current_trace_id} :
    \E st2 \in {[st EXCEPT !.thinking_log = SetKey(@, step_name, thinking)]} :
        /\ id.some
        /\ current_trace_id' = id
        /\ live_thinking' = [live_thinking EXCEPT ![step_name] = thinking]
        /\ trace_data' =
              IF id \in DOMAIN trace_data
              THEN [trace_data EXCEPT ![id].workflow_steps =
                       Append(@, StepRecord(st2, step_name, thinking))]
              ELSE trace_data
        /\ exc' = IF id \in DOMAIN trace_data THEN exc
                  ELSE SomeText(KeyErrorText(id))
        /\ state' = st2

---------------------------------------------------------------------------
(* Node 1: parse_amounts_node                                              *)

\* A variant that stores str(None) when no number was extracted.
Canonical_none(number) ==
    IF ~number.none THEN Str(PyStr(number)) ELSE Str(L_None)

\* Lines 127-128: the parsed amount stored back, "0" for no number.
Canonical(number) ==
    IF ~number.none THEN Str(PyStr(number)) ELSE Str(<<"0">>)

\* The narration of the node, up to what the try block adds.
ParseHead(st) ==
    L_ParseHead \o PyText(st.invoice_amount) \o L_ParseSheet
    \o PyText(st.spreadsheet_amount) \o L_ParseExtracting

\* The state and the narration at the end of the try/except of the node;
\* inv and ss are what _extract_number gave for the two amounts (the second
\* call is not made when the first raised).
ParseOutcome(st, inv, ss) ==
    LET line1 == L_ParseInvoice \o NumText(inv.val) \o <<"\n">>
        line2 == L_ParseSpreadsheet \o NumText(ss.val) \o <<"\n">>
        failed(sofar, msg) ==
            [state |-> [st EXCEPT !.error = msg],
             thinking |-> sofar \o L_ParseError \o msg \o <<"\n">>]
    IN  IF inv.raised THEN failed(ParseHead(st), st.invoice_amount.err)
        ELSE IF ss.raised
        THEN failed(ParseHead(st) \o line1, st.spreadsheet_amount.err)
        ELSE [state |-> [st EXCEPT !.invoice_amount = Canonical(inv.val),
                                   !.spreadsheet_amount = Canonical(ss.val)],
              thinking |-> ParseHead(st) \o line1 \o line2 \o L_ParseDone]

\* Lines 105-112 are outside the try block: when str() of an amount raises,
\* the exception leaves the node and workflow.invoke (pc = "RAISED") with
\* workflow_step set and nothing logged.  So does the KeyError of
\* _log_thinking (line 136), which no try block of the node encloses.
parse_amounts_node ==
    /\ pc = "parse_amounts"
    /\ Alone
    /\ \E st \in {[state EXCEPT !.workflow_step = "parse_amounts"]} :
          IF Renders(st.invoice_amount) /\ Renders(st.spreadsheet_amount)
          THEN /\ \E inv \in {_extract_number(st.invoice_amount)},
                     ss \in {_extract_number(st.spreadsheet_amount)} :
                  \E parsed \in {ParseOutcome(st, inv, ss)} :
                     _log_thinking(parsed.state, "parsing", parsed.thinking)
               /\ pc' = IF Unstored THEN "RAISED" ELSE Edge("parse_amounts")
          ELSE /\ state' = st
               /\ exc' = SomeText(IF Renders(st.invoice_amount)
                                   THEN st.spreadsheet_amount.err
                                   ELSE st.invoice_amount.err)
               /\ pc' = "RAISED"
               /\ UNCHANGED <<trace_data, current_trace_id, live_thinking>>
    /\ UNCHANGED <<now, ret, args, got, ex_text, ex_out>>

---------------------------------------------------------------------------
(* Node 2: compare_amounts_node                                            *)

\* A variant with a tolerance of 5.
tolerance_loose == Num(FALSE, 5, 0)

\* Line 166: tolerance = 0.01, the double nearest to it.
tolerance == Num(FALSE, 1, 2)

\* abs(x - y)
Difference(x, y) == Abs(Minus(x, y))

\* A variant that divides whenever the maximum is not negative.
Divides_nonneg(m) == ~Greater(Zero, m)

\* Line 160, the condition: the division is done only for a positive maximum.
Divides(m) == Greater(m, Zero)

\* A variant that divides by the magnitude of the maximum, whatever its sign.
PercentageDiff_abs(difference, m) ==
    IF ~IsZero(m) THEN Times(Quotient(difference, Abs(m)), 100) ELSE Zero

\* Line 160: (difference / m) * 100 if the division is done, else 0.
PercentageDiff(difference, m) ==
    IF Divides(m) THEN Times(Quotient(difference, m), 100) ELSE Zero

\* Line 167: percentage_diff <= tolerance.
AmountsMatch(percentage_diff) == AtMost(percentage_diff, tolerance)

\* Lines 173-176: the comparison summary.
ComparisonResult(amounts_match, invoice_val, spreadsheet_val, difference, percentage_diff) ==
    IF amounts_match
    THEN L_MatchHead \o Fmt2(invoice_val) \o L_MatchMid \o Fmt2(spreadsheet_val)
         \o L_DiffOpen \o Fmt2(difference) \o <<")">>
    ELSE L_MismatchHead \o Fmt2(invoice_val) \o L_MismatchMid
         \o Fmt2(spreadsheet_val) \o L_DiffOpen \o Fmt2(difference)
         \o <<",", " ">> \o FmtPct(percentage_diff) \o <<"%", ")">>

\* f"{tolerance*100}"
ToleranceText == PyStr(Times(tolerance, 100))

\* The narration of the node, up to what the try block adds.
CompareHead(st) ==
    L_CompareHead \o PyText(st.invoice_amount) \o L_CompareSheet
    \o PyText(st.spreadsheet_amount) \o L_ComparePerforming

\* The state and the narration when the try block raised with message msg,
\* sofar being the narration up to there.
CompareFailed(st, sofar, msg) ==
    [state |-> [st EXCEPT !.error = msg,
                          !.reconciliation_result = L_ErrorComparing \o msg],
     thinking |-> sofar \o L_CompareError \o msg \o <<"\n">>]

\* Lines 155-179: the try block once both amounts are floats.
Compared(st, invoice_val, spreadsheet_val, difference, m, percentage_diff, amounts_match, comparison_result) ==
    LET values == L_CompareInvoiceVal \o Fmt2(invoice_val) \o <<"\n">>
                  \o L_CompareSheetVal \o Fmt2(spreadsheet_val) \o <<"\n">>
    IN  IF Divides(m) /\ IsZero(m)
        THEN CompareFailed(st, CompareHead(st) \o values, L_ZeroDivision)
        ELSE [state |-> [st EXCEPT !.reconciliation_result = comparison_result],
              thinking |->
                 CompareHead(st) \o values
                 \o L_CompareAbs \o Fmt2(difference) \o <<"\n">>
                 \o L_ComparePct \o FmtPct(percentage_diff) \o <<"%", "\n">>
                 \o L_CompareTol \o ToleranceText \o <<"%", "\n">>
                 \o L_CompareMatch
                 \o (IF amounts_match THEN L_True ELSE L_False) \o <<"\n">>
                 \o L_CompareResult \o comparison_result \o <<"\n">>]

compare_amounts_node ==
    /\ pc = "compare_amounts"
    /\ Alone
    /\ \E st \in {[state EXCEPT !.workflow_step = "compare_amounts"]} :
       \E fi \in {FloatOf(st.invoice_amount)},
          fs \in {FloatOf(st.spreadsheet_amount)} :
          IF ~fi.ok
          THEN \E out \in {CompareFailed(st, CompareHead(st), fi.msg)} :
                  _log_thinking(out.state, "comparison", out.thinking)
          ELSE IF ~fs.ok
          THEN \E out \in {CompareFailed(st, CompareHead(st), fs.msg)} :
                  _log_thinking(out.state, "comparison", out.thinking)
          ELSE
            \E invoice_val \in {fi.val}, spreadsheet_val \in {fs.val} :
            \E difference \in {Difference(invoice_val, spreadsheet_val)},
               m \in {Max2(invoice_val, spreadsheet_val)} :
            \E percentage_diff \in {PercentageDiff(difference, m)} :
            \E amounts_match \in {AmountsMatch(percentage_diff)} :
            \E comparison_result \in
                  {ComparisonResult(amounts_match, invoice_val, spreadsheet_val,
                                    difference, percentage_diff)} :
            \E out \in {Compared(st, invoice_val, spreadsheet_val, difference, m,
                                 percentage_diff, amounts_match,
                                 comparison_result)} :
               _log_thinking(out.state, "comparison", out.thinking)
    /\ pc' = IF Unstored THEN "RAISED" ELSE Edge("compare_amounts")
    /\ UNCHANGED <<now, ret, args, got, ex_text, ex_out>>

---------------------------------------------------------------------------
(* Node 3: generate_verdict_node                                           *)

\* A variant without the INCONCLUSIVE branch.
VerdictOf_binary(reconciliation_result) ==
    IF Contains(reconciliation_result, L_MATCH)
    THEN [verdict |-> L_YES, reasoning |-> L_ReasonMatch]
    ELSE [verdict |-> L_NO, reasoning |-> L_ReasonMismatch]

\* Lines 204-212: the verdict code and the reasoning, by the tests in the
\* order of the source.
VerdictOf(reconciliation_result) ==
    IF Contains(reconciliation_result, L_MATCH)
    THEN [verdict |-> L_YES, reasoning |-> L_ReasonMatch]
    ELSE IF Contains(reconciliation_result, L_MISMATCH)
    THEN [verdict |-> L_NO, reasoning |-> L_ReasonMismatch]
    ELSE [verdict |-> L_INCONCLUSIVE, reasoning |-> L_ReasonError]

_get_recommendation(verdict) ==
    IF verdict = L_YES THEN L_RecProceed
    ELSE IF verdict = L_NO THEN L_RecReview
    ELSE L_RecManual

\* A variant whose report carries the second of the clock.
VerdictStatement_stamped(verdict, reasoning, reconciliation_result) ==
    L_VerdictHead \o verdict \o L_AnalysisHead \o reasoning \o L_DetailsHead
    \o reconciliation_result \o L_RecommendationHead
    \o _get_recommendation(verdict) \o <<"\n">> \o DigitsOf(now)

\* Lines 218-229: the report.
VerdictStatement(verdict, reasoning, reconciliation_result) ==
    L_VerdictHead \o verdict \o L_AnalysisHead \o reasoning \o L_DetailsHead
    \o reconciliation_result \o L_RecommendationHead
    \o _get_recommendation(verdict) \o <<"\n">>

\* The narration of the node.
VerdictThinking(reconciliation_result, v) ==
    L_VerdictGenHead \o reconciliation_result \o L_VerdictGenerating
    \o L_VerdictFinal \o v.verdict \o <<"\n">>
    \o L_VerdictReasoning \o v.reasoning \o <<"\n">>
    \o L_VerdictDone

\* Nothing in the try block of this node can raise (it tests, formats and
\* concatenates strs), so its except branch is not a step of the model.
generate_verdict_node ==
    /\ pc = "generate_verdict"
    /\ Alone
    /\ \E st \in {[state EXCEPT !.workflow_step = "generate_verdict"]} :
       \E reconciliation_result \in {st.reconciliation_result} :
       \E v \in {VerdictOf(reconciliation_result)} :
       \E verdict_statement \in
             {VerdictStatement(v.verdict, v.reasoning, reconciliation_result)},
          thinking \in {VerdictThinking(reconciliation_result, v)} :
          _log_thinking([st EXCEPT !.verdict = verdict_statement],
                        "verdict", thinking)
    /\ pc' = IF Unstored THEN "RAISED" ELSE Edge("generate_verdict")
    /\ UNCHANGED <<now, ret, args, got, ex_text, ex_out>>

---------------------------------------------------------------------------
(* reconcile_amounts, statement by statement up to workflow.invoke: another *)
(* call on the instance, or a tick of the clock, may fall between two of    *)
(* the statements.                                                          *)

\* Lines 291-294 and 67: the call is entered, and _create_trace_id assigns
\* current_trace_id from the clock.  The caller has dropped what the earlier
\* calls returned to it (ret, exc, got), and the call has no state of its
\* own before line 304.
reconcile_amounts(invoice_amount, spreadsheet_amount) ==
    /\ pc = "idle"
    /\ Alone
    /\ state' = InitialState(Str(<<>>), Str(<<>>), NoTrace)
    /\ current_trace_id' = TraceId(now)
    /\ args' = [invoice_amount |-> invoice_amount,
                spreadsheet_amount |-> spreadsheet_amount,
                trace_id |-> NoTrace]
    /\ ret' = NoText
    /\ exc' = NoText
    /\ got' = NoOut
    /\ pc' = "store_trace"
    /\ UNCHANGED <<trace_data, live_thinking, now, ex_text, ex_out>>

\* Lines 68-74: the new trace is stored under the id current_trace_id holds
\* by now, its start_time read from the clock again.
_create_trace_id_store ==
    /\ pc = "store_trace"
    /\ Alone
    /\ trace_data' = Put(trace_data, current_trace_id, NewTrace(now))
    /\ pc' = "return_trace_id"
    /\ UNCHANGED <<state, current_trace_id, live_thinking, now, args, ret, exc,
                   got, ex_text, ex_out>>

\* Lines 75 and 294: _create_trace_id returns the id current_trace_id holds
\* by now, and it becomes the trace_id of the call.
_create_trace_id_return ==
    /\ pc = "return_trace_id"
    /\ Alone
    /\ args' = [args EXCEPT !.trace_id = current_trace_id]
    /\ pc' = "reset_live_thinking"
    /\ UNCHANGED <<state, trace_data, current_trace_id, live_thinking, now, ret,
                   exc, got, ex_text, ex_out>>

\* A variant that leaves live_thinking as the earlier run left it.
reconcile_amounts_invoke_keep ==
    /\ pc = "reset_live_thinking"
    /\ Alone
    /\ state' = InitialState(args.invoice_amount, args.spreadsheet_amount,
                             args.trace_id)
    /\ pc' = EntryPoint
    /\ UNCHANGED <<trace_data, current_trace_id, live_thinking, now, args, ret,
                   exc, got, ex_text, ex_out>>

\* Lines 297-317: live_thinking is reset, the initial state is made and the
\* workflow entered.
reconcile_amounts_invoke ==
    /\ pc = "reset_live_thinking"
    /\ Alone
    /\ live_thinking' = BlankThinking
    /\ state' = InitialState(args.invoice_amount, args.spreadsheet_amount,
                             args.trace_id)
    /\ pc' = EntryPoint
    /\ UNCHANGED <<trace_data, current_trace_id, now, args, ret, exc, got,
                   ex_text, ex_out>>

\* A variant that clears current_trace_id when the run is over.
reconcile_amounts_return_clear ==
    /\ pc = "END"
    /\ Alone
    /\ trace_data' =
         [trace_data EXCEPT ![current_trace_id] =
             [@ EXCEPT !.end_time = SomeTime(now),
                       !.result = SomeText(state.verdict),
                       !.final_state =
                          [some |-> TRUE,
                           workflow_step |-> state.workflow_step,
                           has_error |-> state.error # <<>>,
                           verdict |-> state.verdict,
                           reconciliation_result |-> state.reconciliation_result]]]
    /\ ret' = SomeText(state.verdict)
    /\ current_trace_id' = NoTrace
    /\ pc' = "idle"
    /\ UNCHANGED <<state, live_thinking, now, args, exc, got, ex_text, ex_out>>

\* A variant that returns the comparison summary instead of the verdict.
reconcile_amounts_return_summary ==
    /\ pc = "END"
    /\ Alone
    /\ trace_data' =
         [trace_data EXCEPT ![current_trace_id] =
             [@ EXCEPT !.end_time = SomeTime(now),
                       !.result = SomeText(state.verdict)]]
    /\ ret' = SomeText(state.reconciliation_result)
    /\ pc' = "idle"
    /\ UNCHANGED <<state, current_trace_id, live_thinking, now, args, exc, got,
                   ex_text, ex_out>>

\* Lines 319-330: the workflow has run to END; the trace stored under
\* current_trace_id is finalized and the verdict returned.  When no trace is
\* stored under it, line 321 raises KeyError inside the try block.
reconcile_amounts_return ==
    /\ pc = "END"
    /\ Alone
    /\ IF Unstored
       THEN /\ exc' = SomeText(KeyErrorText(current_trace_id))
            /\ pc' = "RAISED"
            /\ UNCHANGED <<trace_data, ret>>
       ELSE /\ trace_data' =
                 IF current_trace_id.some
                 THEN [trace_data EXCEPT ![current_trace_id] =
                         [@ EXCEPT !.end_time = SomeTime(now),
                                   !.result = SomeText(state.verdict),
                                   !.final_state =
                                      [some |-> TRUE,
                                       workflow_step |-> state.workflow_step,
                                       has_error |-> state.error # <<>>,
                                       verdict |-> state.verdict,
                                       reconciliation_result |->
                                          state.reconciliation_result]]]
                 ELSE trace_data
            /\ ret' = SomeText(state.verdict)
            /\ pc' = "idle"
            /\ exc' = exc
    /\ UNCHANGED <<state, current_trace_id, live_thinking, now, args, got,
                   ex_text, ex_out>>

\* A variant that returns the error text without closing the trace.
reconcile_amounts_except_open ==
    /\ pc = "RAISED"
    /\ Alone
    /\ ret' = SomeText(L_ErrorDuring \o exc.text)
    /\ exc' = NoText
    /\ pc' = "idle"
    /\ UNCHANGED <<state, trace_data, current_trace_id, live_thinking, now, args,
                   got, ex_text, ex_out>>

\* Lines 332-336: the try block raised; the trace stored under
\* current_trace_id gets its end_time and the error text (result stays
\* None, no final_state), and the error text is returned.  When no trace is
\* stored under it, line 334 raises KeyError, which leaves the method: the
\* call returns nothing, and exc is what its caller gets.
reconcile_amounts_except ==
    /\ pc = "RAISED"
    /\ Alone
    /\ IF Unstored
       THEN /\ exc' = SomeText(KeyErrorText(current_trace_id))
            /\ UNCHANGED <<trace_data, ret>>
       ELSE /\ trace_data' =
                 IF current_trace_id.some
                 THEN [trace_data EXCEPT ![current_trace_id] =
                         [@ EXCEPT !.end_time = SomeTime(now),
                                   !.error = SomeText(exc.text)]]
                 ELSE trace_data
            /\ ret' = SomeText(L_ErrorDuring \o exc.text)
            /\ exc' = NoText
    /\ pc' = "idle"
    /\ UNCHANGED <<state, current_trace_id, live_thinking, now, args, got,
                   ex_text, ex_out>>

---------------------------------------------------------------------------
(* The read accessors                                                      *)

\* t.get("error") is truthy: the key is there and its text is not empty.
HasError(trace) == trace.error.some /\ trace.error.text # <<>>

\* Lines 363-372: the seconds from start_time to end_time, None while the
\* trace has no end_time.
_calculate_duration(trace) ==
    IF trace.end_time.some
    THEN [some |-> TRUE, seconds |-> trace.end_time.t - trace.start_time]
    ELSE [some |-> FALSE, seconds |-> 0]

\* A variant that takes one term of the sum only.
SumOver_first(f, ks) ==
    IF ks = {} THEN 0 ELSE f[CHOOSE x \in ks : TRUE]

RECURSIVE SumOver(_, _)
\* sum(f[k] for k in ks)
SumOver(f, ks) ==
    IF ks = {} THEN 0
    ELSE LET k == CHOOSE x \in ks : TRUE
         IN  f[k] + SumOver(f, ks \ {k})

\* Lines 347-359: the copy of the trace with its observability entry.
Observability(trace) ==
    [total_workflow_steps    |-> Len(trace.workflow_steps),
     execution_duration      |-> _calculate_duration(trace),
     state_transitions       |-> Len(trace.state_transitions),
     thinking_process_length |->
         SumOver([i \in 1..Len(trace.workflow_steps) |->
                     Len(trace.workflow_steps[i].thinking)],
                 1..Len(trace.workflow_steps)),
     success_rate            |-> IF HasError(trace) THEN 0 ELSE 1]

\* A variant that writes the observability entry into the stored trace.
get_trace_stored(trace_id) ==
    /\ pc = "idle"
    /\ \E id \in {IF trace_id.some THEN trace_id ELSE current_trace_id} :
          IF id.some /\ id \in DOMAIN trace_data
          THEN /\ trace_data' = [trace_data EXCEPT ![id].observability =
                                     <<Observability(trace_data[id])>>]
               /\ got' = [NoOut EXCEPT !.op = "get_trace", !.found = TRUE,
                                       !.asked = trace_id,
                                       !.trace = trace_data'[id],
                                       !.observability = <<Observability(trace_data[id])>>]
          ELSE /\ got' = [NoOut EXCEPT !.op = "get_trace", !.asked = trace_id]
               /\ UNCHANGED trace_data
    /\ UNCHANGED <<pc, state, current_trace_id, live_thinking, now,
                   args, ret, exc, ex_text, ex_out>>

\* Lines 342-361.  The stored trace is copied, and the copy returned.
get_trace(trace_id) ==
    /\ pc = "idle"
    /\ \E id \in {IF trace_id.some THEN trace_id ELSE current_trace_id} :
          got' = IF id.some /\ id \in DOMAIN trace_data
                 THEN [NoOut EXCEPT !.op = "get_trace", !.found = TRUE,
                                    !.asked = trace_id,
                                    !.trace = [trace_data[id] EXCEPT !.observability =
                                                  <<Observability(trace_data[id])>>],
                                    !.observability = <<Observability(trace_data[id])>>]
                 ELSE [NoOut EXCEPT !.op = "get_trace", !.asked = trace_id]
    /\ UNCHANGED <<pc, state, trace_data, current_trace_id, live_thinking, now,
                   args, ret, exc, ex_text, ex_out>>

\* Lines 376-396: the metrics over the stored traces td; the rates and the
\* average are fractions [n, d].  An empty store gives {} (found = FALSE).
Metrics(td) ==
    LET ids      == DOMAIN td
        total    == Cardinality(ids)
        failed   == {k \in ids : HasError(td[k])}
        valid    == {k \in ids : _calculate_duration(td[k]).some}
        seconds  == [k \in ids |-> _calculate_duration(td[k]).seconds]
        steps    == [k \in ids |-> Len(td[k].workflow_steps)]
        least(S) == IF S = {} THEN 0
                    ELSE CHOOSE d \in {seconds[k] : k \in S} :
                             \A k \in S : d <= seconds[k]
        most(S)  == IF S = {} THEN 0
                    ELSE CHOOSE d \in {seconds[k] : k \in S} :
                             \A k \in S : d >= seconds[k]
    IN  [total_executions     |-> total,
         success_rate         |-> [n |-> total - Cardinality(failed), d |-> total],
         failure_rate         |-> [n |-> Cardinality(failed), d |-> total],
         average_duration     |-> IF valid = {} THEN [n |-> 0, d |-> 1]
                                  ELSE [n |-> SumOver(seconds, valid),
                                        d |-> Cardinality(valid)],
         min_duration         |-> least(valid),
         max_duration         |-> most(valid),
         total_thinking_steps |-> SumOver(steps, ids)]

\* Lines 374-396.
get_workflow_metrics ==
    /\ pc = "idle"
    /\ got' = IF DOMAIN trace_data = {}
              THEN [NoOut EXCEPT !.op = "get_workflow_metrics"]
              ELSE [NoOut EXCEPT !.op = "get_workflow_metrics", !.found = TRUE,
                                 !.metrics = <<Metrics(trace_data)>>]
    /\ UNCHANGED <<pc, state, trace_data, current_trace_id, live_thinking, now,
                   args, ret, exc, ex_text, ex_out>>

\* Lines 338-340.
get_live_thinking ==
    /\ pc = "idle"
    /\ got' = [NoOut EXCEPT !.op = "get_live_thinking", !.found = TRUE,
                            !.thinking = live_thinking]
    /\ UNCHANGED <<pc, state, trace_data, current_trace_id, live_thinking, now,
                   args, ret, exc, ex_text, ex_out>>

\* Lines 430-436: the dict get_live_workflow_state returns.
LiveWorkflowState ==
    [current_trace_id |-> current_trace_id,
     live_thinking    |-> live_thinking,
     workflow_status  |-> IF current_trace_id.some THEN "running" ELSE "idle",
     total_traces     |-> Cardinality(DOMAIN trace_data),
     current_metrics  |-> IF DOMAIN trace_data = {} THEN <<>>
                          ELSE <<Metrics(trace_data)>>]

\* Lines 428-436.
get_live_workflow_state ==
    /\ pc = "idle"
    /\ got' = [NoOut EXCEPT !.op = "get_live_workflow_state", !.found = TRUE,
                            !.live_state = <<LiveWorkflowState>>]
    /\ UNCHANGED <<pc, state, trace_data, current_trace_id, live_thinking, now,
                   args, ret, exc, ex_text, ex_out>>

---------------------------------------------------------------------------
(* export_trace_to_json and the file system                                *)

\* The file system: a function from the paths that exist (relative to the
\* working directory, as str) to [kind, whole, doc].  kind "dir" is a
\* directory; kind "file" a regular file, whole when it holds a complete
\* JSON document doc.
NoDoc ==
    [trace_data |-> NewTrace(0), workflow_metrics |-> <<>>, export_timestamp |-> 0,
     langraph_version |-> <<>>]

Directory == [kind |-> "dir", whole |-> FALSE, doc |-> NoDoc]

OtherFile == [kind |-> "file", whole |-> FALSE, doc |-> NoDoc]

\* A directory that exists.
P_exports ==
    <<"e", "x", "p", "o", "r", "t", "s">>

\* A directory where a file is to be written.
P_taken ==
    <<"e", "x", "p", "o", "r", "t", "s", "/", "t", "a", "k", "e", "n", ".", "j", "s", "o", "n">>

\* A regular file where a directory is to be made.
P_blocked ==
    <<"b", "l", "o", "c", "k", "e", "d">>

\* File paths a caller passes.
P_exports_trace ==
    <<"e", "x", "p", "o", "r", "t", "s", "/", "t", "r", "a", "c", "e", ".", "j", "s", "o", "n">>

P_blocked_trace ==
    <<"b", "l", "o", "c", "k", "e", "d", "/", "t", "r", "a", "c", "e", ".", "j", "s", "o", "n">>

P_trace ==
    <<"t", "r", "a", "c", "e", ".", "j", "s", "o", "n">>

\* The same places under other names.
P_dot_blocked_trace == <<".", "/">> \o P_blocked_trace

P_exports_slash == P_exports \o <<"/">>

P_up_trace == P_exports \o <<"/", ".", ".", "/">> \o P_trace

\* reconciliation_tracer.py:407  'output/'
L_Output ==
    <<"o", "u", "t", "p", "u", "t", "/">>

\* reconciliation_tracer.py:417  'reconciliation_enhanced_tracing'
L_Version ==
    <<"r", "e", "c", "o", "n", "c", "i", "l", "i", "a", "t", "i", "o", "n", "_", "e", "n", "h",
      "a", "n", "c", "e", "d", "_", "t", "r", "a", "c", "i", "n", "g">>

\* reconciliation_tracer.py:407  '_reconciliation_enhanced.json'
L_Enhanced ==
    <<"_", "r", "e", "c", "o", "n", "c", "i", "l", "i", "a", "t", "i", "o", "n", "_", "e", "n",
      "h", "a", "n", "c", "e", "d", ".", "j", "s", "o", "n">>

\* os.path.dirname(p): what stands before the last "/", without the
\* slashes it ends in unless it is made of slashes only.
Dirname(p) ==
    IF \A i \in 1..Len(p) : p[i] # "/" THEN <<>>
    ELSE LET last == CHOOSE k \in 1..Len(p) :
                         p[k] = "/" /\ \A j \in (k + 1)..Len(p) : p[j] # "/"
             head == SubSeq(p, 1, last)
             n    == CHOOSE k \in 0..last :
                         /\ \A j \in (k + 1)..last : head[j] = "/"
                         /\ k > 0 => head[k] # "/"
         IN  IF n = 0 THEN head ELSE SubSeq(head, 1, n)

\* os.path.basename(p): what stands after the last "/".
Basename(p) ==
    SubSeq(p, 1 + (CHOOSE k \in 0..Len(p) :
                      /\ k > 0 => p[k] = "/"
                      /\ \A j \in (k + 1)..Len(p) : p[j] # "/"), Len(p))

\* The end of the name p begins with, for a p that begins with none of "/".
NameEnd(p) ==
    CHOOSE k \in 1..Len(p) :
        /\ k = Len(p) \/ p[k + 1] = "/"
        /\ \A j \in 1..k : p[j] # "/"

RECURSIVE Names(_)
\* The names of the path p in their order: what its slashes separate,
\* without the empty names of a slash at the start, at the end or after
\* another slash.
Names(p) ==
    IF p = <<>> THEN <<>>
    ELSE IF p[1] = "/" THEN Names(Tail(p))
    ELSE <<SubSeq(p, 1, NameEnd(p))>> \o Names(SubSeq(p, NameEnd(p) + 1, Len(p)))

\* The path ends in a slash.
TrailingSlash(p) == p # <<>> /\ p[Len(p)] = "/"

\* os.curdir
curdir == <<".">>

\* os.pardir
pardir == <<".", ".">>

RECURSIVE Join(_)
\* The names with a slash between them.
Join(names) ==
    IF Len(names) <= 1 THEN (IF names = <<>> THEN <<>> ELSE names[1])
    ELSE names[1] \o <<"/">> \o Join(Tail(names))

\* A place of the file system is [abs, names]: the names that lead to it
\* from the working directory, or from the root directory for abs, with no
\* "." among them and ".." only at their start.  Its path text is the key
\* of the place in fs.
PathOf(loc) == (IF loc.abs THEN <<"/">> ELSE <<>>) \o Join(loc.names)

\* Where the walk along the path p begins: the root directory for a path
\* that begins with a slash, else the working directory.
Start(p) == [abs |-> p # <<>> /\ p[1] = "/", names |-> <<>>]

\* What stands at a place: "dir", "file", or "none".  The working
\* directory, the root directory and the directories above the working
\* directory are there; of what else lies outside the working directory fs
\* holds what the program has made.
KindAt(fs, loc) ==
    IF \A i \in 1..Len(loc.names) : loc.names[i] = pardir THEN "dir"
    ELSE IF PathOf(loc) \in DOMAIN fs THEN fs[PathOf(loc)].kind
    ELSE "none"

\* The place the name c leads to from the directory loc: "." stays, ".."
\* goes up (the root directory is above itself), another name goes down.
Enter(loc, c) ==
    IF c = curdir THEN loc
    ELSE IF c # pardir THEN [loc EXCEPT !.names = Append(@, c)]
    ELSE IF loc.names = <<>>
    THEN (IF loc.abs THEN loc ELSE [loc EXCEPT !.names = <<c>>])
    ELSE IF loc.names[Len(loc.names)] = c THEN [loc EXCEPT !.names = Append(@, c)]
    ELSE [loc EXCEPT !.names = SubSeq(@, 1, Len(@) - 1)]

RECURSIVE Walk(_, _, _)
\* The walk from loc along names, as the kernel resolves a path: every name
\* is looked up in a directory, so that a name after a regular file gives
\* NotADirectoryError and a name after nothing FileNotFoundError.
\* [raised, loc, kind]: the place reached and what stands there.
Walk(fs, loc, names) ==
    IF names = <<>> THEN [raised |-> "", loc |-> loc, kind |-> KindAt(fs, loc)]
    ELSE IF KindAt(fs, loc) = "dir" THEN Walk(fs, Enter(loc, names[1]), Tail(names))
    ELSE [raised |-> IF KindAt(fs, loc) = "file" THEN "NotADirectoryError"
                     ELSE "FileNotFoundError",
          loc |-> loc, kind |-> "none"]

\* The place the path p names in fs; the empty path names none.
Resolve(fs, p) ==
    IF p = <<>>
    THEN [raised |-> "FileNotFoundError", loc |-> Start(p), kind |-> "none"]
    ELSE Walk(fs, Start(p), Names(p))

\* os.path.exists(p) for the place r that p names: a path that ends in a
\* slash names a directory only.
ExistsAt(p, r) ==
    r.raised = "" /\ r.kind # "none" /\ (TrailingSlash(p) => r.kind = "dir")

\* os.path.exists(p)
Exists(fs, p) == ExistsAt(p, Resolve(fs, p))

\* os.path.isdir(p)
IsDirAt(r) == r.raised = "" /\ r.kind = "dir"

IsDir(fs, p) == IsDirAt(Resolve(fs, p))

\* os.mkdir for the place r its path names: it takes a place where nothing
\* stands, in a directory that is there.
MkdirAt(fs, r) ==
    IF r.raised # "" THEN [raised |-> r.raised, fs |-> fs]
    ELSE IF r.kind # "none" THEN [raised |-> "FileExistsError", fs |-> fs]
    ELSE [raised |-> "",
          fs |-> [p \in DOMAIN fs \cup {PathOf(r.loc)} |->
                     IF p = PathOf(r.loc) THEN Directory ELSE fs[p]]]

\* os.mkdir(d) in fs: [raised, fs]; raised is the name of the exception, ""
\* when there is none.
Mkdir(fs, d) == MkdirAt(fs, Resolve(fs, d))

\* os.makedirs, its last lines: mkdir(name) has given made; what it raised
\* is passed over when name is a directory (exist_ok).
Accepted(fs, name, made) ==
    IF made.raised # "" /\ IsDir(fs, name) THEN [raised |-> "", fs |-> fs]
    ELSE made

\* os.makedirs, after makedirs(head) has given above: a FileExistsError of
\* it is passed over, and name is not made when its last name is ".".
AfterHead(name, tail, above) ==
    IF above.raised \notin {"", "FileExistsError"} THEN above
    ELSE IF tail = curdir THEN [raised |-> "", fs |-> above.fs]
    ELSE Accepted(above.fs, name, Mkdir(above.fs, name))

RECURSIVE makedirs(_, _)
\* os.makedirs for head, tail = os.path.split(name), taken of the head
\* again when name ends in a slash: a head that is not there is made first.
MakedirsOf(fs, name, head, tail) ==
    IF head # <<>> /\ tail # <<>> /\ ~Exists(fs, head)
    THEN AfterHead(name, tail, makedirs(fs, head))
    ELSE Accepted(fs, name, Mkdir(fs, name))

\* os.makedirs(name, exist_ok=True) in fs: [raised, fs].
makedirs(fs, name) ==
    IF Basename(name) # <<>> THEN MakedirsOf(fs, name, Dirname(name), Basename(name))
    ELSE MakedirsOf(fs, name, Dirname(Dirname(name)), Basename(Dirname(name)))

\* open(p, 'w') for the place r that p names: it opens the regular file
\* that stands there, or makes one where nothing stands; a path that ends
\* in a slash names no file.
CanOpenAt(p, r) == r.raised = "" /\ r.kind # "dir" /\ ~TrailingSlash(p)

\* open(p, 'w') in fs succeeds.
CanOpen(fs, p) == CanOpenAt(p, Resolve(fs, p))

\* The key in fs of the file open(p, 'w') opens.
Opened(fs, p) == PathOf(Resolve(fs, p).loc)

\* json.dump accepts the trace: the amounts of its snapshots are str or
\* None (everything else in a trace is str, number, None, list or dict).
Serializable(trace) ==
    \A i \in 1..Len(trace.workflow_steps) :
        /\ trace.workflow_steps[i].state_snapshot.invoice_amount.kind \in {"str", "none"}
        /\ trace.workflow_steps[i].state_snapshot.spreadsheet_amount.kind \in {"str", "none"}

\* A variant that takes a trace that is not stored for an empty one.
TraceOf_blank(trace_id) ==
    LET id == IF trace_id.some THEN trace_id ELSE current_trace_id
    IN  IF id.some /\ id \in DOMAIN trace_data
        THEN [found |-> TRUE, id |-> id,
              trace |-> [trace_data[id] EXCEPT !.observability =
                            <<Observability(trace_data[id])>>]]
        ELSE [found |-> TRUE, id |-> id, trace |-> NewTrace(0)]

\* Lines 342-361, as export_trace_to_json calls it at line 400: the copy of
\* the stored trace with its observability entry, or None (found FALSE).
TraceOf(trace_id) ==
    LET id == IF trace_id.some THEN trace_id ELSE current_trace_id
    IN  IF id.some /\ id \in DOMAIN trace_data
        THEN [found |-> TRUE, id |-> id,
              trace |-> [trace_data[id] EXCEPT !.observability =
                            <<Observability(trace_data[id])>>]]
        ELSE [found |-> FALSE, id |-> id, trace |-> NewTrace(0)]

\* Lines 405-407: the path written to; None and "" give the default path.
ExportPath(id, file_path) ==
    IF file_path.some /\ file_path.text # <<>> THEN file_path.text
    ELSE L_Output \o IdText(id) \o L_Enhanced

\* Lines 413-418: the document exported.
EnhancedExport(trace) ==
    [trace_data       |-> trace,
     workflow_metrics |-> <<Metrics(trace_data)>>,
     export_timestamp |-> now,
     langraph_version |-> L_Version]

\* Lines 398-426.  Line 402 returns False for a trace that is not stored.
\* Line 410 makes the directory of the path, outside the try: what it raises
\* leaves the method.  Lines 420-426: open and json.dump inside the try;
\* a failure there is printed and False returned, and a json.dump that
\* fails leaves the file it had begun.
export_trace_to_json(trace_id, file_path) ==
    /\ pc = "idle"
    /\ \E t \in {TraceOf(trace_id)} :
          IF ~t.found
          THEN /\ got' = [NoOut EXCEPT !.op = "export_trace_to_json",
                                       !.asked = trace_id]
               /\ files' = files
          ELSE \E p \in {ExportPath(t.id, file_path)} :
               \E made \in {makedirs(files, Dirname(p))} :
                  IF made.raised # ""
                  THEN /\ got' = [NoOut EXCEPT !.op = "export_trace_to_json",
                                               !.asked = trace_id, !.found = TRUE,
                                               !.path = p,
                                               !.raised = made.raised]
                       /\ files' = made.fs
                  ELSE IF ~CanOpen(made.fs, p)
                  THEN /\ got' = [NoOut EXCEPT !.op = "export_trace_to_json",
                                               !.asked = trace_id, !.found = TRUE,
                                               !.path = p]
                       /\ files' = made.fs
                  ELSE /\ got' = [NoOut EXCEPT !.op = "export_trace_to_json",
                                               !.asked = trace_id, !.found = TRUE,
                                               !.path = p,
                                               !.exported = Serializable(t.trace)]
                       /\ files' =
                             [q \in DOMAIN made.fs \cup {Opened(made.fs, p)} |->
                                 IF q # Opened(made.fs, p) THEN made.fs[q]
                                 ELSE IF Serializable(t.trace)
                                 THEN [kind |-> "file", whole |-> TRUE,
                                       doc |-> EnhancedExport(t.trace)]
                                 ELSE OtherFile]
    /\ UNCHANGED <<pc, state, trace_data, current_trace_id, live_thinking, now,
                   args, ret, exc, ex_text, ex_out>>

\* The working directory before the first export.
InitialFiles ==
    [p \in {P_exports, P_taken, P_blocked} |->
        IF p = P_blocked THEN OtherFile ELSE Directory]

\* Lines 101-134 on a state made for a call of the stage on its own: the
\* state the stage leaves and its narration.
ParseCall(invoice_amount, spreadsheet_amount) ==
    LET st == [InitialState(invoice_amount, spreadsheet_amount, NoTrace)
                   EXCEPT !.workflow_step = "parse_amounts"]
    IN  ParseOutcome(st, _extract_number(st.invoice_amount),
                     _extract_number(st.spreadsheet_amount))

\* Lines 101-136, called on its own on an instance that is idle, with a
\* state made for the call.  With a current trace id the stage logs its
\* step and returns; with none _log_thinking goes to make the trace first
\* (lines 79-80), in the steps below, the clock read at each of them.
parse_amounts_node_call(invoice_amount, spreadsheet_amount) ==
    /\ pc = "idle"
    /\ Alone
    /\ Renders(invoice_amount) /\ Renders(spreadsheet_amount)
    /\ \E parsed \in {ParseCall(invoice_amount, spreadsheet_amount)} :
          IF current_trace_id.some
          THEN /\ _log_thinking(parsed.state, "parsing", parsed.thinking)
               /\ pc' = "idle"
          ELSE /\ _log_thinking_create(parsed.state)
               /\ pc' = "log_store_trace"
    /\ args' = [invoice_amount |-> invoice_amount,
                spreadsheet_amount |-> spreadsheet_amount,
                trace_id |-> NoTrace]
    /\ ret' = NoText
    /\ got' = NoOut
    /\ UNCHANGED <<now, ex_text, ex_out>>

\* Lines 68-74, reached from line 80: the new trace is stored under the id
\* current_trace_id holds, its start_time read from the clock again.
_log_thinking_store_trace ==
    /\ pc = "log_store_trace"
    /\ Alone
    /\ trace_data' = Put(trace_data, current_trace_id, NewTrace(now))
    /\ pc' = "log_thinking"
    /\ UNCHANGED <<state, current_trace_id, live_thinking, now, args, ret, exc,
                   got, ex_text, ex_out>>

\* Lines 75 and 83-99, then line 136: _create_trace_id has returned (line 80
\* drops the id), the narration of the stage is stored and its step
\* appended with the second the clock shows now, and the stage returns.
parse_amounts_node_return ==
    /\ pc = "log_thinking"
    /\ Alone
    /\ \E parsed \in {ParseCall(args.invoice_amount, args.spreadsheet_amount)} :
          _log_thinking(state, "parsing", parsed.thinking)
    /\ pc' = "idle"
    /\ UNCHANGED <<now, args, ret, got, ex_text, ex_out>>

---------------------------------------------------------------------------
(* The argument texts the specifications draw                              *)

\* '$500.00'
T_500 ==
    <<"$", "5", "0", "0", ".", "0", "0">>

\* '$400.00'
T_400 ==
    <<"$", "4", "0", "0", ".", "0", "0">>

\* 'garbage'
T_garbage ==
    <<"g", "a", "r", "b", "a", "g", "e">>

\* '0'
T_0 ==
    <<"0">>

\* '99.5'
T_99_5 ==
    <<"9", "9", ".", "5">>

\* '10000'
T_10000 ==
    <<"1", "0", "0", "0", "0">>

\* '9999'
T_9999 ==
    <<"9", "9", "9", "9">>

\* '-100'
T_neg100 ==
    <<"-", "1", "0", "0">>

\* '-50'
T_neg50 ==
    <<"-", "5", "0">>

\* '$10 and $20 fee'
T_fee ==
    <<"$", "1", "0", " ", "a", "n", "d", " ", "$", "2", "0", " ", "f", "e", "e">>

\* 'MATCH'
T_MATCH ==
    <<"M", "A", "T", "C", "H">>

\* ' 500 '
T_padded ==
    <<" ", "5", "0", "0", " ">>

\* '1.2.3'
T_1_2_3 ==
    <<"1", ".", "2", ".", "3">>

\* '$1,234.56'
T_1234_56 ==
    <<"$", "1", ",", "2", "3", "4", ".", "5", "6">>

\* 'abc'
T_abc ==
    <<"a", "b", "c">>

\* '\u0663' (ARABIC-INDIC DIGIT THREE)
T_arabic3 ==
    <<"U+0663">>

\* '0.00001'
T_small ==
    <<"0", ".", "0", "0", "0", "0", "1">>

\* '2.675'
T_2_675 ==
    <<"2", ".", "6", "7", "5">>

\* '\u3000500\u3000' (500 between two IDEOGRAPHIC SPACEs)
T_wide ==
    <<"U+3000", "5", "0", "0", "U+3000">>

\* '2' and 308 zeros, a number above the greatest double
T_huge ==
    <<"2">> \o Zeros(308)

\* the message of the ValueError bool() of a Series raises
T_Ambiguous ==
    <<"T", "h", "e", " ", "t", "r", "u", "t", "h", " ", "v", "a", "l", "u", "e", " ", "o", "f",
      " ", "a", " ", "S", "e", "r", "i", "e", "s", " ", "i", "s", " ", "a", "m", "b", "i", "g",
      "u", "o", "u", "s", ".", " ", "U", "s", "e", " ", "a", ".", "e", "m", "p", "t", "y", ",",
      " ", "a", ".", "b", "o", "o", "l", "(", ")", ",", " ", "a", ".", "i", "t", "e", "m", "(",
      ")", ",", " ", "a", ".", "a", "n", "y", "(", ")", " ", "o", "r", " ", "a", ".", "a", "l",
      "l", "(", ")", ".">>

\* the message of the TypeError float() of a Series of several elements raises
T_NoFloat ==
    <<"c", "a", "n", "n", "o", "t", " ", "c", "o", "n", "v", "e", "r", "t", " ", "t", "h", "e",
      " ", "s", "e", "r", "i", "e", "s", " ", "t", "o", " ", "<", "c", "l", "a", "s", "s", " ",
      "'", "f", "l", "o", "a", "t", "'", ">">>

\* 'Series(500.0)'
T_Series500 ==
    <<"S", "e", "r", "i", "e", "s", "(", "5", "0", "0", ".", "0", ")">>

\* 'Series(None)'
T_SeriesNone ==
    <<"S", "e", "r", "i", "e", "s", "(", "N", "o", "n", "e", ")">>

\* the message of the ValueError str() of an Unprintable raises
T_Unprintable ==
    <<"u", "n", "p", "r", "i", "n", "t", "a", "b", "l", "e">>

\* the message of the TypeError float() of an Unprintable raises
T_NoFloatU ==
    <<"f", "l", "o", "a", "t", "(", ")", " ", "a", "r", "g", "u", "m", "e", "n", "t", " ", "m",
      "u", "s", "t", " ", "b", "e", " ", "a", " ", "s", "t", "r", "i", "n", "g", " ", "o", "r",
      " ", "a", " ", "r", "e", "a", "l", " ", "n", "u", "m", "b", "e", "r", ",", " ", "n", "o",
      "t", " ", "'", "U", "n", "p", "r", "i", "n", "t", "a", "b", "l", "e", "'">>

\* An object that holds 500.0: str() gives 'Series(500.0)', float() 500.0,
\* and bool() raises.
Series500 == Obj(T_Series500, Num(FALSE, 500, 0), T_Ambiguous, <<>>)

\* An object that holds no number: float() raises as well.
SeriesNone == Obj(T_SeriesNone, NoneNum, T_Ambiguous, T_NoFloat)

\* An object whose str() raises.
Unprintable == Bad(T_Unprintable, T_NoFloatU)

---------------------------------------------------------------------------
(* Specifications                                                          *)

\* The amounts "100", "99", ... down to 100 - MaxGap.
MaxGap == 2

NearHundred == {Str(DigitsOf(100 - k)) : k \in 0..MaxGap}

\* The arguments of reconcile_amounts: amount texts with and without
\* currency signs, texts without a number, None, and objects of another type.
Inputs ==
    NearHundred
    \cup {Str(T_500), Str(T_400), Str(T_garbage), Str(<<>>), Str(T_0),
          Str(T_99_5), Str(T_10000), Str(T_9999), Str(T_neg100), Str(T_neg50),
          Str(T_fee), Str(T_MATCH), Str(T_padded), Str(T_1_2_3),
          Str(T_arabic3), Str(T_small), Str(T_2_675), Str(T_wide), Str(T_huge)}
    \cup {PyNone, SeriesNone, Series500, Unprintable}

\* The instance after __init__, no call made yet.
Init ==
    /\ pc = "idle"
    /\ state = InitialState(Str(<<>>), Str(<<>>), NoTrace)
    /\ trace_data = [k \in {} |-> NewTrace(0)]
    /\ current_trace_id = NoTrace
    /\ live_thinking = BlankThinking
    /\ now = 0
    /\ args = [invoice_amount |-> Str(<<>>), spreadsheet_amount |-> Str(<<>>),
               trace_id |-> NoTrace]
    /\ ret = NoText
    /\ exc = NoText
    /\ got = NoOut
    /\ history = <<>>
    /\ files = InitialFiles
    /\ calls = <<NoCall, NoCall>>
    /\ ex_text = Str(<<>>)
    /\ ex_out = [done |-> FALSE, raised |-> FALSE, val |-> NoneNum]

\* Amounts that match, amounts that do not, an amount the parse stage fails
\* on, and an amount that makes the workflow raise.
RunInputs ==
    {<<Str(T_500), Str(T_500)>>, <<Str(T_500), Str(T_400)>>,
     <<Series500, Str(T_500)>>, <<Unprintable, Str(T_500)>>}

\* The call before was made with amounts of RunInputs, or there was none.
AfterRunInputs ==
    current_trace_id.some
        => <<args.invoice_amount, args.spreadsheet_amount>> \in RunInputs

\* Calls of reconcile_amounts one after the other, all inside one second of
\* the clock, each run to its return; the log of the calls is not kept.
\* Any two Inputs are the amounts of a call; the call before it, whose
\* trace and narration it finds, is one of RunInputs.
Next ==
    \/ \E invoice_amount \in Inputs, spreadsheet_amount \in Inputs :
          /\ AfterRunInputs
          /\ reconcile_amounts(invoice_amount, spreadsheet_amount)
          /\ UNCHANGED <<history, files, calls>>
    \/ _create_trace_id_store /\ UNCHANGED <<history, files, calls>>
    \/ _create_trace_id_return /\ UNCHANGED <<history, files, calls>>
    \/ reconcile_amounts_invoke /\ UNCHANGED <<history, files, calls>>
    \/ parse_amounts_node /\ UNCHANGED <<history, files, calls>>
    \/ compare_amounts_node /\ UNCHANGED <<history, files, calls>>
    \/ generate_verdict_node /\ UNCHANGED <<history, files, calls>>
    \/ reconcile_amounts_return /\ UNCHANGED <<history, files, calls>>
    \/ reconcile_amounts_except /\ UNCHANGED <<history, files, calls>>

Spec == Init /\ [][Next]_vars

\* The life of one instance: at most MaxRuns calls of reconcile_amounts
\* while the clock goes from second 0 to second MaxClock at most, with calls
\* of the read accessors between the runs, and the log of the calls kept.
MaxRuns == 2

MaxClock == 1

\* The wall clock moves on to the next second.
Tick ==
    /\ now < MaxClock
    /\ now' = now + 1
    /\ UNCHANGED <<pc, state, trace_data, current_trace_id, live_thinking,
                   args, ret, exc, got, ex_text, ex_out>>

\* The ids a caller may ask get_trace for: None, an id of the store, and an
\* id no trace was ever stored under.
AskedIds == {NoTrace, TraceId(MaxClock + 1)} \cup DOMAIN trace_data

\* The call is entered in the log, and what it returns at its end.
Started(invoice_amount, spreadsheet_amount) ==
    Append(history, [invoice_amount |-> invoice_amount,
                     spreadsheet_amount |-> spreadsheet_amount,
                     trace_id |-> current_trace_id', ret |-> NoText])

Ended == [history EXCEPT ![Len(history)].ret = ret']

NextRuns ==
    \/ \E p \in RunInputs :
          /\ Len(history) < MaxRuns
          /\ reconcile_amounts(p[1], p[2])
          /\ history' = Started(p[1], p[2])
          /\ UNCHANGED <<files, calls>>
    \/ _create_trace_id_store /\ UNCHANGED <<history, files, calls>>
    \/ _create_trace_id_return /\ UNCHANGED <<history, files, calls>>
    \/ reconcile_amounts_invoke /\ UNCHANGED <<history, files, calls>>
    \/ parse_amounts_node /\ UNCHANGED <<history, files, calls>>
    \/ compare_amounts_node /\ UNCHANGED <<history, files, calls>>
    \/ generate_verdict_node /\ UNCHANGED <<history, files, calls>>
    \/ reconcile_amounts_return /\ history' = Ended /\ UNCHANGED <<files, calls>>
    \/ reconcile_amounts_except /\ history' = Ended /\ UNCHANGED <<files, calls>>
    \/ Tick /\ UNCHANGED <<history, files, calls>>
    \/ \E trace_id \in AskedIds : get_trace(trace_id) /\ UNCHANGED <<history, files, calls>>
    \/ get_workflow_metrics /\ UNCHANGED <<history, files, calls>>
    \/ get_live_thinking /\ UNCHANGED <<history, files, calls>>
    \/ get_live_workflow_state /\ UNCHANGED <<history, files, calls>>

SpecRuns == Init /\ [][NextRuns]_vars

\* _extract_number called on its own, on every text of at most MaxLen
\* characters of ExtractAlphabet, on the texts of the examples, and on None.
MaxLen == 3

\* U+0663 is the digit three of another script, U+3000 a space.
ExtractAlphabet ==
    {"1", "U+0663", ".", "-", "+", "$", ",", "U+3000", "a", "U+20AC"}

ExtractInputs ==
    {Str(s) : s \in UNION {[1..k -> ExtractAlphabet] : k \in 0..MaxLen}}
    \cup {Str(T_1234_56), Str(T_abc), Str(T_fee), Str(T_500), Str(T_neg50),
          Str(T_1_2_3), Str(T_small), Str(T_2_675), Str(T_wide), PyNone}

InitExtract ==
    /\ pc = "idle"
    /\ state = InitialState(Str(<<>>), Str(<<>>), NoTrace)
    /\ trace_data = [k \in {} |-> NewTrace(0)]
    /\ current_trace_id = NoTrace
    /\ live_thinking = BlankThinking
    /\ now = 0
    /\ args = [invoice_amount |-> Str(<<>>), spreadsheet_amount |-> Str(<<>>),
               trace_id |-> NoTrace]
    /\ ret = NoText
    /\ exc = NoText
    /\ got = NoOut
    /\ history = <<>>
    /\ files = InitialFiles
    /\ calls = <<NoCall, NoCall>>
    /\ ex_text \in ExtractInputs
    /\ ex_out = [done |-> FALSE, raised |-> FALSE, val |-> NoneNum]

extract_call ==
    /\ ~ex_out.done
    /\ ex_out' = [done |-> TRUE, raised |-> _extract_number(ex_text).raised,
                  val |-> _extract_number(ex_text).val]
    /\ UNCHANGED <<pc, state, trace_data, current_trace_id, live_thinking, now,
                   args, ret, exc, got, history, ex_text, files, calls>>

NextExtract == extract_call

SpecExtract == InitExtract /\ [][NextExtract]_vars


---------------------------------------------------------------------------
(* Exports                                                                 *)

\* One instance: runs of reconcile_amounts, the parse stage called on its
\* own on the new instance, and exports of a trace in between.  The clock
\* moves on (to second MaxClock at most) between the three reads of the
\* stage called on its own, and the runs start in second 0; the runs under
\* a moving clock are those of SpecRuns.
ExportRuns ==
    {<<Str(T_500), Str(T_400)>>, <<Series500, Str(T_500)>>,
     <<Unprintable, Str(T_500)>>}

\* The trace ids export is asked for: none and the id of each second.
ExportIds == {NoTrace} \cup {TraceId(t) : t \in 0..MaxClock}

\* The file paths: none (the default path), a path without a directory
\* part, a path in a directory that exists, a path under a regular file,
\* a path at which a directory stands, and paths that name such places
\* with ".", ".." and a closing "/".
ExportPaths ==
    {NoText, SomeText(P_trace), SomeText(P_exports_trace),
     SomeText(P_blocked_trace), SomeText(P_taken),
     SomeText(P_dot_blocked_trace), SomeText(P_exports_slash),
     SomeText(P_up_trace)}

NextExport ==
    \/ \E p \in ExportRuns :
          /\ now = 0
          /\ reconcile_amounts(p[1], p[2])
          /\ UNCHANGED <<history, files, calls>>
    \/ _create_trace_id_store /\ UNCHANGED <<history, files, calls>>
    \/ _create_trace_id_return /\ UNCHANGED <<history, files, calls>>
    \/ reconcile_amounts_invoke /\ UNCHANGED <<history, files, calls>>
    \/ parse_amounts_node /\ UNCHANGED <<history, files, calls>>
    \/ compare_amounts_node /\ UNCHANGED <<history, files, calls>>
    \/ generate_verdict_node /\ UNCHANGED <<history, files, calls>>
    \/ reconcile_amounts_return /\ UNCHANGED <<history, files, calls>>
    \/ reconcile_amounts_except /\ UNCHANGED <<history, files, calls>>
    \/ /\ current_trace_id = NoTrace
       /\ parse_amounts_node_call(Str(T_500), Str(T_400))
       /\ UNCHANGED <<history, files, calls>>
    \/ _log_thinking_store_trace /\ UNCHANGED <<history, files, calls>>
    \/ parse_amounts_node_return /\ UNCHANGED <<history, files, calls>>
    \/ /\ pc \in {"log_store_trace", "log_thinking"}
       /\ Tick
       /\ UNCHANGED <<history, files, calls>>
    \/ \E trace_id \in ExportIds, file_path \in ExportPaths :
          export_trace_to_json(trace_id, file_path) /\ UNCHANGED <<history, calls>>

SpecExport == Init /\ [][NextExport]_vars

---------------------------------------------------------------------------
(* Two callers of one instance                                             *)
(*                                                                         *)
(* app.py hands one cached instance to every session (lines 138-140) and   *)
(* the class takes no lock, so a caller can be put aside between any two   *)
(* accesses to what the callers share: the fields current_trace_id,        *)
(* trace_data and live_thinking of the instance, the traces stored, and    *)
(* the clock.  A step below is one such access, taken together with the    *)
(* work on the caller's own values (arguments, state, narration) that      *)
(* comes before it and that no other caller can see.  The pc of a caller   *)
(* names the access it makes next by the line of reconciliation_tracer.py: *)
(* at "L68_key" it reads self.current_trace_id in line 68, at "L68_store"  *)
(* it stores into self.trace_data there.                                   *)

Callers == {1, 2}

\* What the steps of two callers leave alone: the variables of the
\* specifications with one caller.
OneCaller == <<pc, state, args, ret, exc, got, history, files, ex_text, ex_out>>

\* The call of the caller has returned, or has raised to the caller.
Done(c) == c.pc = "idle" /\ (c.ret.some \/ c.exc.some)

\* The step_name each node hands to _log_thinking (lines 136, 186, 239).
StageOf == [parse_amounts |-> "parsing", compare_amounts |-> "comparison",
            generate_verdict |-> "verdict"]

\* Caller i goes on as c, the other caller stays as it is.
Goes(i, c) == calls' = [calls EXCEPT ![i] = c]

\* datetime.now(): the caller takes the second the clock shows.
ReadsClock(i, to) ==
    /\ Goes(i, [calls[i] EXCEPT !.t = now, !.pc = to])
    /\ UNCHANGED <<trace_data, current_trace_id, live_thinking, now>>
    /\ UNCHANGED OneCaller

\* self.current_trace_id is read: the caller takes the id the field holds
\* at this moment, whichever call assigned it.
ReadsPointer(i, to) ==
    /\ Goes(i, [calls[i] EXCEPT !.key = current_trace_id, !.pc = to])
    /\ UNCHANGED <<trace_data, current_trace_id, live_thinking, now>>
    /\ UNCHANGED OneCaller

\* self.trace_data[key] is evaluated: the caller takes the trace stored
\* under the id it has read, or KeyError is raised when none is stored
\* (the other caller is between lines 67 and 68) and the caller goes on at
\* handler, with nothing in hand.
Finds(i, to, handler) ==
    /\ IF calls[i].key \in DOMAIN trace_data
       THEN Goes(i, [calls[i] EXCEPT !.linked = TRUE, !.pc = to])
       ELSE Goes(i, [calls[i] EXCEPT !.exc = SomeText(KeyErrorText(calls[i].key)),
                                     !.t = 0, !.key = NoTrace,
                                     !.thinking = <<>>, !.pc = handler])
    /\ UNCHANGED <<trace_data, current_trace_id, live_thinking, now>>
    /\ UNCHANGED OneCaller

\* A store into the trace the caller found: it reaches trace_data unless
\* that trace has been replaced under its id meanwhile (the store then goes
\* to a dict nothing refers to any more).
StoresTo(c, trace) ==
    IF c.linked THEN [trace_data EXCEPT ![c.key] = trace] ELSE trace_data

\* The caller with nothing in hand, at pc to.
At(c, to) ==
    [c EXCEPT !.t = 0, !.key = NoTrace, !.thinking = <<>>, !.linked = FALSE,
              !.live = FALSE, !.pc = to]

\* Lines 291-294, and line 67 up to datetime.now(): the caller enters
\* reconcile_amounts and _create_trace_id reads the clock.
call_reconcile_amounts(i, invoice_amount, spreadsheet_amount) ==
    /\ calls[i].pc = "idle"
    /\ ~Done(calls[i])
    /\ Goes(i, [NoCall EXCEPT !.args = [invoice_amount |-> invoice_amount,
                                        spreadsheet_amount |-> spreadsheet_amount,
                                        trace_id |-> NoTrace],
                              !.t = now, !.pc = "L67_store"])
    /\ UNCHANGED <<trace_data, current_trace_id, live_thinking, now>>
    /\ UNCHANGED OneCaller

\* Line 67, the assignment: current_trace_id is the id of the second read.
_create_trace_id_assign(i) ==
    /\ calls[i].pc = "L67_store"
    /\ current_trace_id' = TraceId(calls[i].t)
    /\ Goes(i, At(calls[i], "L70_now"))
    /\ UNCHANGED <<trace_data, live_thinking, now>>
    /\ UNCHANGED OneCaller

\* Line 70: the dict of lines 68-74 is built first, its start_time read
\* from the clock.
_create_trace_id_now(i) ==
    /\ calls[i].pc = "L70_now"
    /\ ReadsClock(i, "L68_key")

\* Line 68, the subscript: the id current_trace_id holds by now.
_create_trace_id_key(i) ==
    /\ calls[i].pc = "L68_key"
    /\ ReadsPointer(i, "L68_store")

\* Line 68, the store: the new trace is stored under the id read.  A trace
\* stored there before is replaced, and the other caller, if it has that
\* one in hand, is left with a trace that is stored no more.
_create_trace_id_put(i) ==
    /\ calls[i].pc = "L68_store"
    /\ trace_data' = Put(trace_data, calls[i].key, NewTrace(calls[i].t))
    /\ calls' = [j \in Callers |->
                   IF j = i THEN At(calls[i], "L75_key")
                   ELSE IF calls[j].key = calls[i].key
                   THEN [calls[j] EXCEPT !.linked = FALSE]
                   ELSE calls[j]]
    /\ UNCHANGED <<current_trace_id, live_thinking, now>>
    /\ UNCHANGED OneCaller

\* Lines 75 and 294: _create_trace_id returns the id current_trace_id holds
\* by now, and it is the trace_id of the call.
_create_trace_id_result(i) ==
    /\ calls[i].pc = "L75_key"
    /\ Goes(i, [calls[i] EXCEPT !.args.trace_id = current_trace_id,
                                !.pc = "L297_store"])
    /\ UNCHANGED <<trace_data, current_trace_id, live_thinking, now>>
    /\ UNCHANGED OneCaller

\* Lines 297-317: a new dict is assigned to live_thinking (the other
\* caller, if it has read the old one, is left with that), the initial
\* state is made and the workflow entered.
reset_live_thinking(i) ==
    /\ calls[i].pc = "L297_store"
    /\ live_thinking' = BlankThinking
    /\ calls' = [j \in Callers |->
                   IF j = i
                   THEN [calls[i] EXCEPT
                           !.state = InitialState(calls[i].args.invoice_amount,
                                                  calls[i].args.spreadsheet_amount,
                                                  calls[i].args.trace_id),
                           !.pc = EntryPoint]
                   ELSE [calls[j] EXCEPT !.live = FALSE]]
    /\ UNCHANGED <<trace_data, current_trace_id, now>>
    /\ UNCHANGED OneCaller

\* The amounts of the two calls: a pair that matches and one that does not
\* (no stage raises on them, so that workflow.invoke returns unless a trace
\* is missing).
InterleavedRuns ==
    <<<<Str(T_500), Str(T_500)>>, <<Str(T_500), Str(T_400)>>>>

\* What a stage makes of the state st it is entered with, from line 103
\* (140, 190) to the call of _log_thinking: the state and the narration.
\* It reads and writes nothing but st.
ParseStage(st) ==
    ParseOutcome([st EXCEPT !.workflow_step = "parse_amounts"],
                 _extract_number(st.invoice_amount),
                 _extract_number(st.spreadsheet_amount))

CompareValues(st, invoice_val, spreadsheet_val, difference, m, percentage_diff, amounts_match) ==
    Compared(st, invoice_val, spreadsheet_val, difference, m, percentage_diff,
             amounts_match,
             ComparisonResult(amounts_match, invoice_val, spreadsheet_val,
                              difference, percentage_diff))

ComparePercent(st, invoice_val, spreadsheet_val, difference, m, percentage_diff) ==
    CompareValues(st, invoice_val, spreadsheet_val, difference, m,
                  percentage_diff, AmountsMatch(percentage_diff))

CompareDifference(st, invoice_val, spreadsheet_val, difference, m) ==
    ComparePercent(st, invoice_val, spreadsheet_val, difference, m,
                   PercentageDiff(difference, m))

CompareFloats(st, fi, fs) ==
    IF ~fi.ok THEN CompareFailed(st, CompareHead(st), fi.msg)
    ELSE IF ~fs.ok THEN CompareFailed(st, CompareHead(st), fs.msg)
    ELSE CompareDifference(st, fi.val, fs.val, Difference(fi.val, fs.val),
                           Max2(fi.val, fs.val))

CompareEntered(st) ==
    CompareFloats(st, FloatOf(st.invoice_amount), FloatOf(st.spreadsheet_amount))

CompareStage(st) ==
    CompareEntered([st EXCEPT !.workflow_step = "compare_amounts"])

VerdictGiven(st, reconciliation_result, v) ==
    [state |-> [st EXCEPT !.verdict =
                   VerdictStatement(v.verdict, v.reasoning, reconciliation_result)],
     thinking |-> VerdictThinking(reconciliation_result, v)]

VerdictStage(st) ==
    VerdictGiven([st EXCEPT !.workflow_step = "generate_verdict"],
                 st.reconciliation_result, VerdictOf(st.reconciliation_result))

\* Line 84: the state a stage leaves when its narration is logged.
Leaves(out, step_name) ==
    [out.state EXCEPT !.thinking_log = SetKey(@, step_name, out.thinking)]

\* The stages are worked out once for the states the two calls enter them
\* with (the trace_id of a call is an id of one of the seconds of the
\* clock): the pairs of a state and what the stage makes of it.
ParseEntered ==
    {InitialState(InterleavedRuns[i][1], InterleavedRuns[i][2], TraceId(t)) :
        i \in {1, 2}, t \in 0..MaxClock}

ParseTable == {<<st, ParseStage(st)>> : st \in ParseEntered}

CompareTable ==
    {<<Leaves(p[2], "parsing"), CompareStage(Leaves(p[2], "parsing"))>> :
        p \in ParseTable}

VerdictTable ==
    {<<Leaves(p[2], "comparison"), VerdictStage(Leaves(p[2], "comparison"))>> :
        p \in CompareTable}

\* What the stage with the pairs table makes of st.
Made(table, st) == (CHOOSE p \in table : p[1] = st)[2]

\* A node has made its state and its narration (out) and calls
\* _log_thinking: line 79 finds current_trace_id set (every caller has
\* assigned it in line 67 before its workflow begins, and nothing clears
\* it), and line 83 reads self.live_thinking.
Logs(i, out) ==
    /\ current_trace_id.some
    /\ Goes(i, [calls[i] EXCEPT !.state = out.state, !.thinking = out.thinking,
                                !.live = TRUE, !.pc = "L83_store"])

\* Lines 101-136, 79 and 83 up to the subscript: the parse stage on the
\* state of the caller.  When str() of an amount raises in the narration
\* (lines 105-112) the exception leaves the node and workflow.invoke.
parse_amounts_node_try(i) ==
    /\ calls[i].pc = "parse_amounts"
    /\ \E st \in {calls[i].state} :
          IF Renders(st.invoice_amount) /\ Renders(st.spreadsheet_amount)
          THEN Logs(i, IF st \in ParseEntered THEN Made(ParseTable, st)
                       ELSE ParseStage(st))
          ELSE Goes(i, [calls[i] EXCEPT
                          !.state.workflow_step = "parse_amounts",
                          !.exc = SomeText(IF Renders(st.invoice_amount)
                                           THEN st.spreadsheet_amount.err
                                           ELSE st.invoice_amount.err),
                          !.pc = "RAISED"])
    /\ UNCHANGED <<trace_data, current_trace_id, live_thinking, now>>
    /\ UNCHANGED OneCaller

\* Lines 138-186, 79 and 83 up to the subscript: the compare stage.
compare_amounts_node_try(i) ==
    /\ calls[i].pc = "compare_amounts"
    /\ \E st \in {calls[i].state} :
          Logs(i, IF \E p \in CompareTable : p[1] = st
                  THEN Made(CompareTable, st) ELSE CompareStage(st))
    /\ UNCHANGED <<trace_data, current_trace_id, live_thinking, now>>
    /\ UNCHANGED OneCaller

\* Lines 188-239, 79 and 83 up to the subscript: the verdict stage.
generate_verdict_node_try(i) ==
    /\ calls[i].pc = "generate_verdict"
    /\ \E st \in {calls[i].state} :
          Logs(i, IF \E p \in VerdictTable : p[1] = st
                  THEN Made(VerdictTable, st) ELSE VerdictStage(st))
    /\ UNCHANGED <<trace_data, current_trace_id, live_thinking, now>>
    /\ UNCHANGED OneCaller

\* Lines 83, the store, and 84: the narration goes into the live_thinking
\* dict the caller has read and into the thinking_log of its state.
_log_thinking_live(i) ==
    /\ calls[i].pc = "L83_store"
    /\ \E step_name \in {StageOf[calls[i].state.workflow_step]} :
          /\ live_thinking' =
                IF calls[i].live
                THEN [live_thinking EXCEPT ![step_name] = calls[i].thinking]
                ELSE live_thinking
          /\ Goes(i, [calls[i] EXCEPT
                        !.state.thinking_log = SetKey(@, step_name, calls[i].thinking),
                        !.live = FALSE, !.pc = "L87_key"])
    /\ UNCHANGED <<trace_data, current_trace_id, now>>
    /\ UNCHANGED OneCaller

\* A variant that takes the trace of the call's own state["trace_id"].
_log_thinking_key_own(i) ==
    /\ calls[i].pc = "L87_key"
    /\ Goes(i, [calls[i] EXCEPT !.key = calls[i].state.trace_id,
                                !.pc = "L87_trace"])
    /\ UNCHANGED <<trace_data, current_trace_id, live_thinking, now>>
    /\ UNCHANGED OneCaller

\* Line 87, the subscript: the id current_trace_id holds by now.
_log_thinking_key(i) ==
    /\ calls[i].pc = "L87_key"
    /\ ReadsPointer(i, "L87_trace")

\* Line 87: the trace stored under that id and its workflow_steps; the
\* KeyError is raised out of the node and of workflow.invoke.
_log_thinking_trace(i) ==
    /\ calls[i].pc = "L87_trace"
    /\ Finds(i, "L89_now", "RAISED")

\* Line 89: the timestamp of the step record.
_log_thinking_now(i) ==
    /\ calls[i].pc = "L89_now"
    /\ ReadsClock(i, "L87_append")

\* Lines 87-99: the step record, with the snapshot of the caller's state, is
\* appended to the workflow_steps found, and the workflow goes on to the
\* next node.
_log_thinking_append(i) ==
    /\ calls[i].pc = "L87_append"
    /\ \E rec \in {[StepRecord(calls[i].state,
                               StageOf[calls[i].state.workflow_step],
                               calls[i].thinking)
                      EXCEPT !.timestamp = calls[i].t]} :
          trace_data' =
             IF calls[i].linked
             THEN [trace_data EXCEPT ![calls[i].key].workflow_steps = Append(@, rec)]
             ELSE trace_data
    /\ Goes(i, At(calls[i], Edge(calls[i].state.workflow_step)))
    /\ UNCHANGED <<current_trace_id, live_thinking, now>>
    /\ UNCHANGED OneCaller

\* Lines 320 and 321, the right-hand side: workflow.invoke has returned,
\* current_trace_id is set, and the clock is read.
finalize_now(i) ==
    /\ calls[i].pc = "END"
    /\ ReadsClock(i, "L321_key")

\* Lines 321, 322 and 323, the subscript: each statement reads
\* current_trace_id anew.
finalize_key(i) ==
    \/ /\ calls[i].pc = "L321_key"
       /\ ReadsPointer(i, "L321_trace")
    \/ /\ calls[i].pc = "L322_key"
       /\ ReadsPointer(i, "L322_trace")
    \/ /\ calls[i].pc = "L323_key"
       /\ ReadsPointer(i, "L323_trace")

\* Lines 321, 322 and 323: the trace stored under the id read; the KeyError
\* is raised inside the try block.
finalize_trace(i) ==
    \/ /\ calls[i].pc = "L321_trace"
       /\ Finds(i, "L321_store", "RAISED")
    \/ /\ calls[i].pc = "L322_trace"
       /\ Finds(i, "L322_store", "RAISED")
    \/ /\ calls[i].pc = "L323_trace"
       /\ Finds(i, "L323_store", "RAISED")

\* Line 321, the store.
finalize_end_time(i) ==
    /\ calls[i].pc = "L321_store"
    /\ trace_data' = StoresTo(calls[i], [trace_data[calls[i].key] EXCEPT
                                           !.end_time = SomeTime(calls[i].t)])
    /\ Goes(i, At(calls[i], "L322_key"))
    /\ UNCHANGED <<current_trace_id, live_thinking, now>>
    /\ UNCHANGED OneCaller

\* Line 322, the store.
finalize_result(i) ==
    /\ calls[i].pc = "L322_store"
    /\ trace_data' = StoresTo(calls[i], [trace_data[calls[i].key] EXCEPT
                                           !.result = SomeText(calls[i].state.verdict)])
    /\ Goes(i, At(calls[i], "L323_key"))
    /\ UNCHANGED <<current_trace_id, live_thinking, now>>
    /\ UNCHANGED OneCaller

\* Lines 323-330: the store of final_state, and the verdict is returned.
finalize_final_state(i) ==
    /\ calls[i].pc = "L323_store"
    /\ \E st \in {calls[i].state} :
          /\ trace_data' =
                StoresTo(calls[i], [trace_data[calls[i].key] EXCEPT
                   !.final_state =
                      [some |-> TRUE,
                       workflow_step |-> st.workflow_step,
                       has_error |-> st.error # <<>>,
                       verdict |-> st.verdict,
                       reconciliation_result |-> st.reconciliation_result]])
          /\ Goes(i, [At(calls[i], "idle") EXCEPT !.ret = SomeText(st.verdict)])
    /\ UNCHANGED <<current_trace_id, live_thinking, now>>
    /\ UNCHANGED OneCaller

\* Lines 332-334, the right-hand side: the try block has raised,
\* current_trace_id is set, and the clock is read.
except_now(i) ==
    /\ calls[i].pc = "RAISED"
    /\ ReadsClock(i, "L334_key")

\* Lines 334 and 335, the subscript.
except_key(i) ==
    \/ /\ calls[i].pc = "L334_key"
       /\ ReadsPointer(i, "L334_trace")
    \/ /\ calls[i].pc = "L335_key"
       /\ ReadsPointer(i, "L335_trace")

\* Lines 334 and 335: the trace stored under the id read; the KeyError is
\* raised in the except branch, and so out of reconcile_amounts: the call
\* returns nothing and its caller gets the KeyError.
except_trace(i) ==
    \/ /\ calls[i].pc = "L334_trace"
       /\ Finds(i, "L334_store", "idle")
    \/ /\ calls[i].pc = "L335_trace"
       /\ Finds(i, "L335_store", "idle")

\* Line 334, the store.
except_end_time(i) ==
    /\ calls[i].pc = "L334_store"
    /\ trace_data' = StoresTo(calls[i], [trace_data[calls[i].key] EXCEPT
                                           !.end_time = SomeTime(calls[i].t)])
    /\ Goes(i, At(calls[i], "L335_key"))
    /\ UNCHANGED <<current_trace_id, live_thinking, now>>
    /\ UNCHANGED OneCaller

\* Lines 335-336: the store of the error text, and the error text is
\* returned.
except_error(i) ==
    /\ calls[i].pc = "L335_store"
    /\ trace_data' = StoresTo(calls[i], [trace_data[calls[i].key] EXCEPT
                                           !.error = SomeText(calls[i].exc.text)])
    /\ Goes(i, [At(calls[i], "idle") EXCEPT
                  !.ret = SomeText(L_ErrorDuring \o calls[i].exc.text),
                  !.exc = NoText])
    /\ UNCHANGED <<current_trace_id, live_thinking, now>>
    /\ UNCHANGED OneCaller

\* Caller 1 is the one that calls first.
MayCall(i) == i = 1 \/ calls[1] # NoCall

\* Two callers of one shared instance, one call of reconcile_amounts each,
\* their accesses to the instance and to the clock in any order.
NextInterleaved ==
    \/ \E i \in Callers :
          /\ MayCall(i)
          /\ call_reconcile_amounts(i, InterleavedRuns[i][1], InterleavedRuns[i][2])
    \/ \E i \in Callers : _create_trace_id_assign(i)
    \/ \E i \in Callers : _create_trace_id_now(i)
    \/ \E i \in Callers : _create_trace_id_key(i)
    \/ \E i \in Callers : _create_trace_id_put(i)
    \/ \E i \in Callers : _create_trace_id_result(i)
    \/ \E i \in Callers : reset_live_thinking(i)
    \/ \E i \in Callers : parse_amounts_node_try(i)
    \/ \E i \in Callers : compare_amounts_node_try(i)
    \/ \E i \in Callers : generate_verdict_node_try(i)
    \/ \E i \in Callers : _log_thinking_live(i)
    \/ \E i \in Callers : _log_thinking_key(i)
    \/ \E i \in Callers : _log_thinking_trace(i)
    \/ \E i \in Callers : _log_thinking_now(i)
    \/ \E i \in Callers : _log_thinking_append(i)
    \/ \E i \in Callers : finalize_now(i)
    \/ \E i \in Callers : finalize_key(i)
    \/ \E i \in Callers : finalize_trace(i)
    \/ \E i \in Callers : finalize_end_time(i)
    \/ \E i \in Callers : finalize_result(i)
    \/ \E i \in Callers : finalize_final_state(i)
    \/ \E i \in Callers : except_now(i)
    \/ \E i \in Callers : except_key(i)
    \/ \E i \in Callers : except_trace(i)
    \/ \E i \in Callers : except_end_time(i)
    \/ \E i \in Callers : except_error(i)
    \/ Tick /\ UNCHANGED <<history, files, calls>>

SpecInterleaved == Init /\ [][NextInterleaved]_vars
---------------------------------------------------------------------------
(* What the properties below speak of                                      *)

\* The two amounts of a call.
Amounts(a) == <<a.invoice_amount, a.spreadsheet_amount>>

\* The call is between its entry and workflow.invoke (lines 294 to 317).
Starting == pc \in {"store_trace", "return_trace_id", "reset_live_thinking"}

\* A trace is stored under current_trace_id.
Stored == current_trace_id \in DOMAIN trace_data

\* The last call of reconcile_amounts has returned.
Returned == pc = "idle" /\ ret.some

\* The last call returned the error text: workflow.invoke had raised.
Failed == Returned /\ Stored /\ trace_data[current_trace_id].error.some

\* The last call returned from a workflow that ran to its end.
Completed == Returned /\ ~Failed

\* The stages that have run in the call in progress (or the last call).
ParseDone   == pc \in {"compare_amounts", "generate_verdict", "END"} \/ Completed
CompareDone == pc \in {"generate_verdict", "END"} \/ Completed
VerdictDone == pc = "END" \/ Completed

\* The report's first line gives this verdict code.
HasVerdict(report, code) == StartsWith(report, L_VerdictHead \o code \o <<"\n">>)

EndsWith(s, suf) ==
    Len(suf) <= Len(s) /\ SubSeq(s, Len(s) - Len(suf) + 1, Len(s)) = suf

\* The two amounts the compare stage read, when it could read both.
BothFloats == FloatOf(state.invoice_amount).ok /\ FloatOf(state.spreadsheet_amount).ok
InvoiceVal == FloatOf(state.invoice_amount).val
SheetVal   == FloatOf(state.spreadsheet_amount).val

\* Both are numbers, neither an infinity nor nan.
BothFinite == BothFloats /\ InvoiceVal.cls = "fin" /\ SheetVal.cls = "fin"

\* The compare stage classified the amounts (it did not fail).
Classified ==
    \/ StartsWith(state.reconciliation_result, L_MatchHead)
    \/ StartsWith(state.reconciliation_result, L_MismatchHead)

\* |x - y| / max(x, y) * 100 <= k as numbers (no rounding), for finite x and
\* y with max(x, y) > 0 and a natural k; the percentage counts as 0 when
\* max(x, y) <= 0.
PercentAtMost(x, y, k) ==
    LET e  == IF x.exp <= y.exp THEN x.exp ELSE y.exp
        sx == BigShl(x.mant, x.exp - e)
        sy == BigShl(y.mant, y.exp - e)
        mx == IF Greater(y, x) THEN sy ELSE sx
        df == IF x.neg # y.neg THEN BigAdd(sx, sy)
              ELSE IF BigCmp(sx, sy) >= 0 THEN BigSub(sx, sy) ELSE BigSub(sy, sx)
    IN  Greater(Max2(x, y), Zero) =>
            BigCmp(BigTimes(df, 100), BigTimes(mx, k)) <= 0

\* The narration the compare stage logged.
ComparisonNarration == live_thinking.comparison

\* The workflow_step values the step records of the trace of the call
\* show; before line 68 the call has no trace (the one current_trace_id
\* names then, if there is one, is an earlier call's).
LoggedSteps ==
    IF Stored /\ pc # "store_trace"
    THEN LET ws == trace_data[current_trace_id].workflow_steps
         IN  [i \in 1..Len(ws) |-> ws[i].state_snapshot.workflow_step]
    ELSE <<>>

Stages == <<"parse_amounts", "compare_amounts", "generate_verdict">>

---------------------------------------------------------------------------
(* C1 *)

\* The stages that have logged a step are the first stages of the
\* sequence, in order; a stage that is about to run finds workflow_step at
\* the stage before it; and a run that has reached the end of the workflow,
\* or has returned, has gone through the three of them.
C1_Order ==
    LET n == Len(LoggedSteps)
    IN  /\ n <= 3
        /\ LoggedSteps = SubSeq(Stages, 1, n)
        /\ pc = "parse_amounts" => n = 0 /\ state.workflow_step = ""
        /\ pc = "compare_amounts" => n = 1 /\ state.workflow_step = "parse_amounts"
        /\ pc = "generate_verdict" => n = 2 /\ state.workflow_step = "compare_amounts"
        /\ (pc = "END" \/ Returned) =>
              n = 3 /\ state.workflow_step = "generate_verdict"

\* workflow_step only moves to the next stage, and back to empty from the
\* last one when a new run starts.
C1_Step ==
    state.workflow_step' # state.workflow_step =>
        <<state.workflow_step, state.workflow_step'>> \in
            {<<"", "parse_amounts">>, <<"parse_amounts", "compare_amounts">>,
             <<"compare_amounts", "generate_verdict">>, <<"generate_verdict", "">>}

\* C1: in every run of reconcile_amounts workflow_step starts empty and then
\* takes the values parse_amounts, compare_amounts, generate_verdict in that
\* order, each exactly once: no stage is skipped, repeated or reordered,
\* whether or not an earlier stage recorded an error, so every run that has
\* returned has been through the three stages and has logged a step for
\* each.
C1_StageOrder == [](C1_Order) /\ [][C1_Step]_vars

---------------------------------------------------------------------------
(* C2 *)

\* C2: whenever the compare stage classified the amounts as a mismatch (its
\* summary contains "MISMATCH"), the verdict stage gives the verdict code NO.
C2_MismatchGivesNo ==
    (VerdictDone /\ Contains(state.reconciliation_result, L_MISMATCH))
        => HasVerdict(state.verdict, L_NO)

---------------------------------------------------------------------------
(* C3 *)

\* C3: the compare stage classifies two amounts as MATCH whenever their
\* percentage difference is at most 1.0, the bound included (100 and 99).
C3_OnePercentMatches ==
    (CompareDone /\ Classified /\ BothFinite
     /\ PercentAtMost(InvoiceVal, SheetVal, 1))
        => StartsWith(state.reconciliation_result, L_MatchHead)

---------------------------------------------------------------------------
(* C4 *)

\* C4: the compare stage classifies two positive amounts as MISMATCH whenever
\* their percentage difference exceeds 1.0 percent, and the MISMATCH summary
\* embeds the difference and the percentage.
C4_OverOnePercentMismatches ==
    (CompareDone /\ BothFinite
     /\ Greater(InvoiceVal, Zero) /\ Greater(SheetVal, Zero)
     /\ ~PercentAtMost(InvoiceVal, SheetVal, 1))
        => /\ StartsWith(state.reconciliation_result, L_MismatchHead)
           /\ EndsWith(state.reconciliation_result,
                  L_DiffOpen \o Fmt2(Difference(InvoiceVal, SheetVal))
                  \o <<",", " ">>
                  \o FmtPct(PercentageDiff(Difference(InvoiceVal, SheetVal),
                                           Max2(InvoiceVal, SheetVal)))
                  \o <<"%", ")">>)

\* 100 against 98 has been compared: a MISMATCH of $2.00, 2.00%.
C4_Witness ==
    /\ CompareDone
    /\ Amounts(args) = <<Str(<<"1", "0", "0">>),
               Str(<<"9", "8">>)>>
    /\ EndsWith(state.reconciliation_result,
           <<"$", "2", ".", "0", "0", ",", " ", "2", ".", "0", "0", "%", ")">>)

---------------------------------------------------------------------------
(* C5 *)

\* C5: comparing an amount with itself gives difference 0, percentage
\* difference 0 and MATCH, and reconcile_amounts(s, s) for a str s returns a
\* report with verdict YES whose analysis says the amounts match within
\* acceptable tolerance.
C5_SelfMatch ==
    /\ (CompareDone /\ BothFloats /\ InvoiceVal = SheetVal) =>
          /\ StartsWith(state.reconciliation_result, L_MatchHead)
          /\ EndsWith(state.reconciliation_result,
                 L_DiffOpen \o <<"0", ".", "0", "0", ")">>)
          /\ Contains(ComparisonNarration,
                 L_ComparePct \o <<"0", ".", "0", "0", "%", "\n">>)
    /\ (Returned /\ args.invoice_amount.kind = "str"
        /\ args.spreadsheet_amount = args.invoice_amount) =>
          /\ HasVerdict(state.verdict, L_YES)
          /\ Contains(state.verdict, L_AnalysisHead \o L_ReasonMatch \o L_DetailsHead)
          /\ ret.text = state.verdict


---------------------------------------------------------------------------
(* C6 *)

\* The text holds no digit, so no number can be extracted from it.
NoDigit(v) == v.kind = "str" /\ \A i \in 1..Len(v.chars) : v.chars[i] \notin Digit

\* C6: when max(a, b) is 0 the compare stage does not divide, sets the
\* percentage difference to 0 and classifies MATCH; so a run whose two inputs
\* both hold no numeric token, or are both "0", ends with verdict YES and an
\* empty error field.
C6_ZeroMaxMatches ==
    /\ (CompareDone /\ BothFloats /\ IsZero(Max2(InvoiceVal, SheetVal))) =>
          /\ StartsWith(state.reconciliation_result, L_MatchHead)
          /\ Contains(ComparisonNarration,
                 L_ComparePct \o <<"0", ".", "0", "0", "%", "\n">>)
          /\ state.error = <<>>
    /\ (Returned
        /\ \/ NoDigit(args.invoice_amount) /\ NoDigit(args.spreadsheet_amount)
           \/ args.invoice_amount = Str(T_0) /\ args.spreadsheet_amount = Str(T_0)) =>
          /\ HasVerdict(state.verdict, L_YES)
          /\ state.error = <<>>

\* reconcile_amounts("garbage", "") has returned YES on two amounts of 0.
C6_Witness ==
    /\ Returned
    /\ Amounts(args) = <<Str(T_garbage), Str(<<>>)>>
    /\ InvoiceVal = Zero /\ SheetVal = Zero
    /\ HasVerdict(ret.text, L_YES)

---------------------------------------------------------------------------
(* C7 *)

\* C7: the verdict stage gives INCONCLUSIVE exactly when the comparison
\* summary contains neither "MATCH" nor "MISMATCH", and then the
\* recommendation is the manual-review text.
C7_Inconclusive ==
    VerdictDone =>
        /\ HasVerdict(state.verdict, L_INCONCLUSIVE)
              <=> (/\ ~Contains(state.reconciliation_result, L_MATCH)
                   /\ ~Contains(state.reconciliation_result, L_MISMATCH))
        /\ HasVerdict(state.verdict, L_INCONCLUSIVE) =>
              EndsWith(state.verdict, L_RecommendationHead \o L_RecManual \o <<"\n">>)

\* The compare stage failed on an amount it could not convert, and the
\* verdict came out INCONCLUSIVE.
C7_Witness ==
    /\ VerdictDone
    /\ StartsWith(state.reconciliation_result, L_ErrorComparing)
    /\ HasVerdict(state.verdict, L_INCONCLUSIVE)

---------------------------------------------------------------------------
(* C8 *)

\* The text with the currency signs and the commas taken out.
Bare(s) == Remove(Remove(Remove(Remove(s, "$"), ","), "U+20AC"), "U+00A3")

\* The whole numbers of a text that is unsigned whole numbers with single
\* blanks between them, each as its digits.
RECURSIVE WholeNumbers(_)
WholeNumbers(s) ==
    IF s = <<>> THEN <<>>
    ELSE LET e == DigitRunEnd(s, 1)
         IN  <<SubSeq(s, 1, e)>> \o
             (IF e = Len(s) THEN <<>> ELSE WholeNumbers(SubSeq(s, e + 2, Len(s))))

IsWholeNumbers(s) ==
    /\ s # <<>> /\ s[1] \in Digit /\ s[Len(s)] \in Digit
    /\ \A i \in 1..Len(s) : s[i] \in Digit \cup {" "}
    /\ \A i \in 1..(Len(s) - 1) : ~(s[i] = " " /\ s[i + 1] = " ")

\* C8: _extract_number takes out $, the euro and pound signs and commas and
\* returns the greatest of the signed decimal numbers in the rest, or None
\* when the text is empty or None or holds no digit; it never raises.
\* "$1,234.56" gives 1234.56, "" and "abc" give None, "$10 and $20 fee"
\* gives 20.
C8_Extract ==
    ex_out.done =>
        /\ ~ex_out.raised
        /\ ex_out.val.none <=> (ex_text.kind = "none" \/ NoDigit(ex_text))
        /\ ex_text.kind = "str" =>
              /\ ex_out.val = _extract_number(Str(Bare(ex_text.chars))).val
              /\ IsWholeNumbers(Bare(ex_text.chars)) =>
                    \A i \in 1..Len(WholeNumbers(Bare(ex_text.chars))) :
                        ~Greater(DecToDouble(FALSE,
                                     BigOfDigits(WholeNumbers(Bare(ex_text.chars))[i]), 0),
                                 ex_out.val)
              /\ ~ex_out.val.none =>
                    \E k \in 1..Len(Bare(ex_text.chars)) :
                    \E e \in k..Len(Bare(ex_text.chars)) :
                        /\ PyFloat(SubSeq(Bare(ex_text.chars), k, e)).ok
                        /\ PyFloat(SubSeq(Bare(ex_text.chars), k, e)).val = ex_out.val
        /\ ex_text = Str(T_1234_56) => ex_out.val = Num(FALSE, 123456, 2)
        /\ ex_text = Str(T_abc) => ex_out.val = NoneNum
        /\ ex_text = Str(<<>>) => ex_out.val = NoneNum
        /\ ex_text = Str(T_fee) => ex_out.val = Num(FALSE, 20, 0)

\* _extract_number("$10 and $20 fee") has returned 20, the greater of the two.
C8_Witness ==
    /\ ex_out.done
    /\ ex_text = Str(T_fee)
    /\ ex_out.val = Num(FALSE, 20, 0)

---------------------------------------------------------------------------
(* C9 *)

\* The field holds the canonical string of what _extract_number gave for arg.
CanonicalOf(field, arg) ==
    /\ field.kind = "str"
    /\ FloatOf(field).ok
    /\ _extract_number(arg).val.none => field.chars = <<"0">>
    /\ ~_extract_number(arg).val.none =>
          /\ FloatOf(field).val = _extract_number(arg).val
          /\ field.chars = PyStr(_extract_number(arg).val)

---------------------------------------------------------------------------
(* C10 *)

\* C10: in a run in which some stage caught an internal failure (the error
\* field is not empty at the end), the verdict code is not YES.
C10_ErrorNeverYes ==
    (Returned /\ state.error # <<>>) => ~HasVerdict(state.verdict, L_YES)

---------------------------------------------------------------------------
(* C11 *)

\* The trace of the call in progress, or of the last call.
LastTrace == trace_data[current_trace_id]

\* C11: a failure inside a stage is caught at that stage and never leaves it:
\* workflow.invoke never raises, and every call that has returned went
\* through its three stages, each leaving its step record.
C11_FailureStaysInStage ==
    /\ pc # "RAISED"
    /\ Returned => Len(LastTrace.workflow_steps) = 3

---------------------------------------------------------------------------
(* C12 *)

\* C12: when workflow.invoke raises, reconcile_amounts returns the text
\* "Error during reconciliation: " followed by the failure text, and the
\* trace of the run has its end_time set and the failure text as its error.
C12_WorkflowFailureReturned ==
    /\ pc = "RAISED" => exc.some /\ ~ret.some
    /\ Failed =>
          /\ ret.text = L_ErrorDuring \o LastTrace.error.text
          /\ LastTrace.error.text # <<>>
          /\ LastTrace.end_time.some
          /\ LastTrace.end_time.t >= LastTrace.start_time
          /\ ~exc.some
    /\ (Returned /\ (args.invoice_amount = Unprintable
                     \/ args.spreadsheet_amount = Unprintable)) =>
          /\ Failed
          /\ LastTrace.error = SomeText(T_Unprintable)

\* reconcile_amounts(<unprintable>, "$500.00") has returned the error text.
C12_Witness ==
    /\ Returned
    /\ Amounts(args) = <<Unprintable, Str(T_500)>>
    /\ ret.text = L_ErrorDuring \o T_Unprintable
    /\ LastTrace.end_time.some

---------------------------------------------------------------------------
(* C13 *)

\* C13: when the workflow ran to its end, reconcile_amounts returns exactly
\* the verdict field of the final state, and the trace of the run holds the
\* same text as its result.
C13_ReturnsVerdict ==
    Completed =>
        /\ ret = SomeText(state.verdict)
        /\ LastTrace.result = SomeText(state.verdict)
        /\ LastTrace.final_state.verdict = state.verdict
        /\ state.verdict # <<>>

\* reconcile_amounts("$500.00", "$400.00") has returned its report, which is
\* also the result of its trace.
C13_Witness ==
    /\ Completed
    /\ Amounts(args) = <<Str(T_500), Str(T_400)>>
    /\ LastTrace.result = ret
    /\ Contains(ret.text, L_MismatchHead)

---------------------------------------------------------------------------
(* C14 *)

\* C14: any two runs on the instance get two distinct trace ids, so the
\* store holds as many traces as runs were started (counted between the
\* runs: a run that has begun stores its trace in line 68).
C14_DistinctTraceIds ==
    /\ \A i, j \in 1..Len(history) :
          i # j => history[i].trace_id # history[j].trace_id
    /\ pc = "idle" => Cardinality(DOMAIN trace_data) = Len(history)

---------------------------------------------------------------------------
(* C15 *)

\* C15: the text reconcile_amounts returns depends on its two arguments
\* only: two runs on the same arguments return the same text, whatever the
\* clock, the trace id and the earlier runs.
C15_VerdictOfInputsOnly ==
    \A i, j \in 1..Len(history) :
        (/\ history[i].invoice_amount = history[j].invoice_amount
         /\ history[i].spreadsheet_amount = history[j].spreadsheet_amount
         /\ history[i].ret.some /\ history[j].ret.some)
            => history[i].ret = history[j].ret

\* Two runs on "$500.00" and "$400.00", in two different seconds and so
\* under two trace ids, have returned the same report.
C15_Witness ==
    /\ Len(history) = 2
    /\ history[1].invoice_amount = Str(T_500)
    /\ history[1].spreadsheet_amount = Str(T_400)
    /\ history[2].invoice_amount = Str(T_500)
    /\ history[2].spreadsheet_amount = Str(T_400)
    /\ history[1].trace_id # history[2].trace_id
    /\ history[1].ret.some /\ history[2].ret = history[1].ret

---------------------------------------------------------------------------
(* C16 *)

\* A call of reconcile_amounts is in progress.
Running == pc \in {"parse_amounts", "compare_amounts", "generate_verdict", "END", "RAISED"}

C16_Assigned ==
    (Running \/ Returned) =>
        /\ state.trace_id.some
        /\ state.trace_id = current_trace_id
        /\ current_trace_id \in DOMAIN trace_data

C16_Kept == Running => state.trace_id' = state.trace_id

\* C16: within one run the trace id is in the state before the parse stage
\* executes, no stage and no logging step changes it, and it equals the
\* instance's current_trace_id from the first stage through the sealing of
\* the trace.
C16_TraceIdFixed == [](C16_Assigned) /\ [][C16_Kept]_vars

\* A run has reached the end of its workflow after the clock moved on: its
\* trace id is still the one of the second it started in.
C16_Witness ==
    /\ pc = "END"
    /\ state.trace_id = current_trace_id
    /\ state.trace_id = TraceId(0)
    /\ now = 1
    /\ Len(LastTrace.workflow_steps) = 3

---------------------------------------------------------------------------
(* C17 *)

C17_Kept ==
    \A id \in DOMAIN trace_data :
        trace_data[id].end_time.some =>
            /\ id \in DOMAIN trace_data'
            /\ trace_data'[id] = trace_data[id]

\* C17: once a run has returned and its trace has its end_time, no later
\* operation on the instance changes or replaces that trace: it stays in
\* the store under its id with the same step records, times and result.
C17_SealedTraceKept == [][C17_Kept]_vars

---------------------------------------------------------------------------
(* C18 *)

\* C18: every call of reconcile_amounts that has returned, whether its
\* workflow ran to the end or raised, leaves its trace with both its
\* end_time and its result set.
C18_ReturnedTraceSealed ==
    Returned => LastTrace.end_time.some /\ LastTrace.result.some

---------------------------------------------------------------------------
(* C19 *)

\* The calls of the log that returned the error text of a workflow failure.
FailedRuns == {i \in 1..Len(history) : StartsWith(history[i].ret.text, L_ErrorDuring)}

\* C19: after N >= 1 runs of which K ended in failure, get_workflow_metrics
\* reports total_executions = N, failure_rate = K / N and
\* success_rate = (N - K) / N.
C19_MetricsCountRuns ==
    (pc = "idle" /\ got.op = "get_workflow_metrics" /\ Len(history) >= 1) =>
        /\ got.found
        /\ got.metrics[1].total_executions = Len(history)
        /\ got.metrics[1].failure_rate.n * Len(history)
              = Cardinality(FailedRuns) * got.metrics[1].failure_rate.d
        /\ got.metrics[1].success_rate.n * Len(history)
              = (Len(history) - Cardinality(FailedRuns)) * got.metrics[1].success_rate.d

---------------------------------------------------------------------------
(* C20 *)

\* The keys of a thinking_log, in insertion order.
Keys(d) == [i \in 1..Len(d) |-> d[i].key]

LogKeys == <<"parsing", "comparison", "verdict">>

C20_Log ==
    LET n == Len(state.thinking_log)
    IN  /\ n <= 3
        /\ Keys(state.thinking_log) = SubSeq(LogKeys, 1, n)
        /\ pc = "parse_amounts" => n = 0
        /\ pc = "compare_amounts" => n = 1
        /\ pc = "generate_verdict" => n = 2
        /\ VerdictDone => n = 3
        /\ (Running \/ Returned) =>
              \A i \in 1..n :
                  state.thinking_log[i].text = LastTrace.workflow_steps[i].thinking

C20_Grows ==
    Running =>
        /\ Len(state.thinking_log') \in {Len(state.thinking_log), Len(state.thinking_log) + 1}
        /\ SubSeq(state.thinking_log', 1, Len(state.thinking_log)) = state.thinking_log
        /\ (pc \in {"parse_amounts", "compare_amounts", "generate_verdict"}
            /\ pc' \notin {pc, "RAISED"}) =>
              Len(state.thinking_log') = Len(state.thinking_log) + 1

---------------------------------------------------------------------------
(* C25 *)

StepNames == <<"parsing", "comparison", "verdict">>

\* The snapshot a step record holds of the state st.
SnapshotOf(st) ==
    [workflow_step      |-> st.workflow_step,
     invoice_amount     |-> st.invoice_amount,
     spreadsheet_amount |-> st.spreadsheet_amount,
     verdict            |-> st.verdict]

C25_Records ==
    (Running \/ Returned) =>
        LET ws == LastTrace.workflow_steps
            n  == Len(ws)
        IN  /\ n <= 3
            /\ [i \in 1..n |-> ws[i].step] = SubSeq(StepNames, 1, n)
            /\ [i \in 1..n |-> ws[i].state_snapshot.workflow_step] = SubSeq(Stages, 1, n)
            /\ pc = "parse_amounts" => n = 0
            /\ pc = "compare_amounts" => n = 1
            /\ pc = "generate_verdict" => n = 2
            /\ VerdictDone => n = 3
            /\ \A i \in 1..n :
                  /\ ws[i].state_snapshot.invoice_amount = state.invoice_amount
                  /\ ws[i].state_snapshot.spreadsheet_amount = state.spreadsheet_amount
                  /\ ws[i].state_snapshot.verdict = (IF i = 3 THEN state.verdict ELSE <<>>)
                  /\ ws[i].thinking = state.thinking_log[i].text

C25_Appends ==
    (pc \in {"parse_amounts", "compare_amounts", "generate_verdict"}
     /\ pc' \notin {pc, "RAISED"}) =>
        /\ current_trace_id' = current_trace_id
        /\ \E r \in {trace_data'[current_trace_id].workflow_steps[
                         Len(LastTrace.workflow_steps) + 1]} :
              /\ trace_data'[current_trace_id].workflow_steps
                    = Append(LastTrace.workflow_steps, r)
              /\ r.state_snapshot = SnapshotOf(state')
              /\ r.state_snapshot.workflow_step = pc
              /\ r.timestamp = now

\* C25: each stage appends exactly one step record to the trace of the run,
\* after its computation: a run that completes leaves the three records
\* parsing, comparison, verdict in that order, and the snapshot of each
\* record holds the workflow_step of its stage and the amounts and the
\* verdict as they stand after that stage.
C25_OneRecordPerStage == [](C25_Records) /\ [][C25_Appends]_vars

\* The run on "$10 and $20 fee" and "garbage" has ended, and its records
\* show the parsed amounts "20.0" and "0" from the first on
\* and the report in the third only.
C25_Witness ==
    /\ Completed
    /\ Amounts(args) = <<Str(T_fee), Str(T_garbage)>>
    /\ Len(LastTrace.workflow_steps) = 3
    /\ LastTrace.workflow_steps[1].state_snapshot.invoice_amount
          = Str(<<"2", "0", ".", "0">>)
    /\ LastTrace.workflow_steps[1].state_snapshot.spreadsheet_amount = Str(<<"0">>)
    /\ LastTrace.workflow_steps[2].state_snapshot.verdict = <<>>
    /\ LastTrace.workflow_steps[3].state_snapshot.verdict = state.verdict
    /\ state.verdict # <<>>

---------------------------------------------------------------------------
(* C28 *)

\* C28: when neither amount is positive the compare stage takes the
\* percentage difference as 0 and classifies MATCH whatever the difference
\* is (-100 against -50 match); a MISMATCH needs a positive amount.
C28_NonPositiveMatches ==
    (CompareDone /\ BothFloats) =>
        /\ (~Greater(InvoiceVal, Zero) /\ ~Greater(SheetVal, Zero)) =>
              /\ StartsWith(state.reconciliation_result, L_MatchHead)
              /\ Contains(ComparisonNarration,
                     L_ComparePct \o <<"0", ".", "0", "0", "%", "\n">>)
              /\ Contains(ComparisonNarration,
                     L_CompareAbs \o Fmt2(Difference(InvoiceVal, SheetVal)) \o <<"\n">>)
        /\ StartsWith(state.reconciliation_result, L_MismatchHead) =>
              Greater(InvoiceVal, Zero) \/ Greater(SheetVal, Zero)

\* -100 against -50 has been compared: a difference of $50.00, and MATCH.
C28_Witness ==
    /\ CompareDone
    /\ Amounts(args) = <<Str(T_neg100), Str(T_neg50)>>
    /\ InvoiceVal = Num(TRUE, 100, 0) /\ SheetVal = Num(TRUE, 50, 0)
    /\ Contains(ComparisonNarration, L_CompareAbs \o <<"5", "0", ".", "0", "0", "\n">>)
    /\ StartsWith(state.reconciliation_result, L_MatchHead)

---------------------------------------------------------------------------
(* C29 *)

\* thinking_log.get(k, ""): the narration the state holds under key k.
LogText(k) ==
    IF \E i \in 1..Len(state.thinking_log) : state.thinking_log[i].key = k
    THEN state.thinking_log[CHOOSE i \in 1..Len(state.thinking_log) :
                                state.thinking_log[i].key = k].text
    ELSE <<>>

C29_Live ==
    /\ pc = EntryPoint => live_thinking = BlankThinking
    /\ (Running \/ Returned) =>
          \A k \in {"parsing", "comparison", "verdict"} : live_thinking[k] = LogText(k)
    /\ Completed =>
          /\ Keys(state.thinking_log) = LogKeys
          /\ \A k \in {"parsing", "comparison", "verdict"} : live_thinking[k] # <<>>

C29_Reset == (pc # EntryPoint /\ pc' = EntryPoint) => live_thinking' = BlankThinking

\* C29: reconcile_amounts empties the three entries of live_thinking before
\* the first stage (line 297; from the entry of the call to that line the
\* entries are still what the earlier run left), so from the first stage on
\* and after the run every entry is the narration that run has stored in
\* its thinking_log under the same key, or empty; and after a run that
\* completes the three entries are that run's narrations.
C29_LiveThinkingOfThisRun == [](C29_Live) /\ [][C29_Reset]_vars

\* A second run has reached its last stage after a first one had returned
\* its verdict: the verdict entry is empty, the other two are the second
\* run's.
C29_Witness ==
    /\ Len(history) = 2
    /\ history[1].ret.some
    /\ ~StartsWith(history[1].ret.text, L_ErrorDuring)
    /\ history[1].invoice_amount # history[2].invoice_amount
    /\ pc = "generate_verdict"
    /\ live_thinking.verdict = <<>>
    /\ live_thinking.parsing = state.thinking_log[1].text
    /\ live_thinking.comparison = state.thinking_log[2].text
    /\ live_thinking.parsing # <<>>

---------------------------------------------------------------------------
(* C27 *)

\* C27: get_workflow_metrics called between sequential runs returns an
\* empty mapping while no trace is stored; otherwise success_rate and
\* failure_rate add up to 1, total_executions is the number of stored
\* traces, and total_thinking_steps is three times that number when no run
\* ended in a workflow failure.
C27_MetricsConsistent ==
    (pc = "idle" /\ got.op = "get_workflow_metrics") =>
        IF DOMAIN trace_data = {}
        THEN ~got.found /\ got.metrics = <<>>
        ELSE /\ got.found
             /\ Len(got.metrics) = 1
             /\ got.metrics[1].total_executions = Cardinality(DOMAIN trace_data)
             /\ got.metrics[1].success_rate.d = got.metrics[1].total_executions
             /\ got.metrics[1].failure_rate.d = got.metrics[1].total_executions
             /\ got.metrics[1].success_rate.n + got.metrics[1].failure_rate.n
                   = got.metrics[1].total_executions
             /\ got.metrics[1].success_rate.n >= 0
             /\ got.metrics[1].failure_rate.n >= 0
             /\ FailedRuns = {} =>
                   got.metrics[1].total_thinking_steps
                       = 3 * got.metrics[1].total_executions

\* The metrics after two runs in two different seconds, none of which
\* failed: two executions, six steps.
C27_Witness ==
    /\ pc = "idle"
    /\ got.op = "get_workflow_metrics"
    /\ Len(history) = 2
    /\ FailedRuns = {}
    /\ Cardinality(DOMAIN trace_data) = 2
    /\ got.metrics[1].total_executions = 2
    /\ got.metrics[1].success_rate = [n |-> 2, d |-> 2]
    /\ got.metrics[1].total_thinking_steps = 6

---------------------------------------------------------------------------
(* C26 *)

Accessors == {"get_trace", "get_workflow_metrics", "get_live_thinking",
              "get_live_workflow_state"}

\* No stored trace has an observability entry, and what an accessor last
\* returned is computed from the store as it is.
C26_Stored ==
    /\ \A id \in DOMAIN trace_data : trace_data[id].observability = <<>>
    /\ (pc = "idle" /\ got.op = "get_workflow_metrics" /\ got.found) =>
          got.metrics = <<Metrics(trace_data)>>
    /\ (pc = "idle" /\ got.op = "get_live_workflow_state") =>
          /\ got.live_state[1].total_traces = Cardinality(DOMAIN trace_data)
          /\ got.live_state[1].current_metrics
                = IF DOMAIN trace_data = {} THEN <<>> ELSE <<Metrics(trace_data)>>
          /\ got.live_state[1].live_thinking = live_thinking
          /\ got.live_state[1].current_trace_id = current_trace_id
    /\ (pc = "idle" /\ got.op = "get_live_thinking") => got.thinking = live_thinking
    /\ (pc = "idle" /\ got.op = "get_trace" /\ got.found) =>
          /\ Len(got.trace.observability) = 1
          /\ \E id \in DOMAIN trace_data :
                trace_data[id] = [got.trace EXCEPT !.observability = <<>>]

\* A step that is the call of an accessor changes nothing of the instance.
C26_Frame ==
    (pc = "idle" /\ pc' = "idle" /\ got' # got /\ got'.op \in Accessors) =>
        /\ trace_data' = trace_data
        /\ current_trace_id' = current_trace_id
        /\ live_thinking' = live_thinking

\* C26: get_trace, get_workflow_metrics, get_live_thinking and
\* get_live_workflow_state leave the stored traces (to which no
\* observability entry is added), current_trace_id and live_thinking as they
\* were, and the metrics they return are those of the store at the call.
C26_AccessorsReadOnly == [](C26_Stored) /\ [][C26_Frame]_vars

\* get_trace has returned the copy of the trace of a completed run with its
\* observability entry, and the stored trace has none.
C26_Witness ==
    /\ Completed
    /\ got.op = "get_trace"
    /\ got.found
    /\ got.trace.observability = <<got.observability[1]>>
    /\ got.observability[1].total_workflow_steps = 3
    /\ LastTrace.observability = <<>>
    /\ LastTrace.workflow_steps = got.trace.workflow_steps

---------------------------------------------------------------------------
(* C30 *)

\* Between lines 67 and 68 the id is assigned and its trace not yet stored.
C30_Status ==
    /\ pc # "store_trace" => (current_trace_id.some <=> DOMAIN trace_data # {})
    /\ current_trace_id.some <=> history # <<>>
    /\ pc # "store_trace" =>
          (LiveWorkflowState.workflow_status = "idle" <=> DOMAIN trace_data = {})
    /\ Returned => LiveWorkflowState.workflow_status = "running"
    /\ (pc = "idle" /\ got.op = "get_live_workflow_state") =>
          (got.live_state[1].workflow_status = "idle" <=> history = <<>>)
    /\ (pc = "idle" /\ got.op = "get_trace" /\ ~got.asked.some /\ history # <<>>) =>
          /\ got.found
          /\ history[Len(history)].trace_id \in DOMAIN trace_data
          /\ [got.trace EXCEPT !.observability = <<>>]
                = trace_data[history[Len(history)].trace_id]
    /\ (pc = "idle" /\ got.op = "get_trace" /\ ~got.asked.some /\ history = <<>>) =>
          ~got.found

C30_NeverCleared == current_trace_id.some => current_trace_id'.some

\* C30: workflow_status is "idle" exactly while no trace was ever created;
\* current_trace_id is never cleared, so once a run has started the status
\* is "running" for good, and get_trace() without an id returns the trace
\* of the run started last.
C30_StatusRunningForGood == [](C30_Status) /\ [][C30_NeverCleared]_vars

\* Both runs have returned, and get_live_workflow_state says "running".
C30_Witness ==
    /\ Returned
    /\ Len(history) = 2
    /\ history[1].trace_id # history[2].trace_id
    /\ got.op = "get_live_workflow_state"
    /\ got.live_state[1].workflow_status = "running"
    /\ got.live_state[1].current_trace_id = history[2].trace_id
    /\ got.live_state[1].total_traces = 2

---------------------------------------------------------------------------
(* C21 *)

Exported == pc = "idle" /\ got.op = "export_trace_to_json"

\* The id the last export looked up: the id asked for, else the current
\* one.
ExportedId == IF got.asked.some THEN got.asked ELSE current_trace_id

C21_Refused ==
    (Exported /\ ~(ExportedId.some /\ ExportedId \in DOMAIN trace_data)) =>
        /\ ~got.exported
        /\ got.raised = ""
        /\ ~got.found

C21_Frame ==
    (got'.op = "export_trace_to_json" /\ ~got'.found) =>
        /\ files' = files
        /\ trace_data' = trace_data
        /\ current_trace_id' = current_trace_id

\* C21: export_trace_to_json asked for a trace id that is not stored, or for
\* no id while no run has started, returns False, and the call leaves the
\* files and the stored traces as they were.
C21_AbsentTraceNotExported == [](C21_Refused) /\ [][C21_Frame]_vars

\* A run has left its trace, and the export of another id was refused: no
\* file was written.
C21_Witness ==
    /\ Exported
    /\ got.asked = TraceId(1)
    /\ DOMAIN trace_data = {TraceId(0)}
    /\ trace_data[TraceId(0)].end_time.some
    /\ ~got.exported
    /\ files = InitialFiles

---------------------------------------------------------------------------
(* C22 *)

\* C22: export_trace_to_json returns False for a stored trace that has no
\* end_time.
C22_UnsealedNotExported ==
    (Exported /\ ExportedId.some /\ ExportedId \in DOMAIN trace_data) =>
        (~trace_data[ExportedId].end_time.some => ~got.exported)

---------------------------------------------------------------------------
(* C23 *)

\* C23: export_trace_to_json never raises; what fails while a stored trace
\* is exported is reported by the return value False.
C23_ExportNeverRaises == Exported => got.raised = ""
---------------------------------------------------------------------------
(* C24 *)

\* A caller that has not called can call, wherever the call of the other
\* caller stands: the instance has no lock and no flag that would hold it.
C24_Unguarded ==
    \A i \in Callers :
        (MayCall(i) /\ calls[i] = NoCall) =>
            ENABLED call_reconcile_amounts(i, InterleavedRuns[i][1],
                                           InterleavedRuns[i][2])

\* Caller i takes the step: each statement taken moves its position (the
\* step of one caller changes nothing of the other but what becomes of the
\* objects the other holds).
Steps(i) == calls'[i].pc # calls[i].pc

\* Once a caller has assigned current_trace_id it stays set: line 79 always
\* finds it so, also when the other caller runs between.
C24_PointerSet ==
    \A i \in Callers :
        calls[i].pc \notin {"idle", "L67_store"} => current_trace_id.some

\* The id a statement of a call works with is the one the shared field
\* holds when the statement reads it, whichever call assigned it; the
\* trace_id of the call itself is taken from the field as well (line 75).
C24_Pointer ==
    \A i \in Callers :
        /\ (calls'[i].key # calls[i].key /\ calls'[i].key.some) =>
              calls'[i].key = current_trace_id
        /\ calls'[i].args.trace_id # calls[i].args.trace_id =>
              calls'[i].args.trace_id \in {NoTrace, current_trace_id}

\* A step of a caller changes no trace but the one stored under the id the
\* caller has read from the shared field, and no trace is ever taken out of
\* trace_data; the step record a caller appends carries its own narration
\* and its own amounts, whichever call the trace was made for; and
\* live_thinking is either made anew (line 297) or takes the narration of
\* the caller that steps.
C24_Writes ==
    /\ \A id \in DOMAIN trace_data :
          /\ id \in DOMAIN trace_data'
          /\ trace_data'[id] # trace_data[id] =>
                \E i \in Callers : Steps(i) /\ calls[i].key = id
    /\ \A id \in DOMAIN trace_data' \ DOMAIN trace_data :
          \E i \in Callers :
             Steps(i) /\ calls[i].pc = "L68_store" /\ calls[i].key = id
    /\ \A i \in Callers :
          (calls[i].pc = "L87_append" /\ Steps(i) /\ calls[i].linked) =>
             LET old == trace_data[calls[i].key].workflow_steps
                 new == trace_data'[calls[i].key].workflow_steps
             IN  /\ Len(new) = Len(old) + 1
                 /\ SubSeq(new, 1, Len(old)) = old
                 /\ new[Len(new)].step = StageOf[calls[i].state.workflow_step]
                 /\ new[Len(new)].thinking = calls[i].thinking
                 /\ new[Len(new)].state_snapshot.invoice_amount
                       = calls[i].state.invoice_amount
    /\ live_thinking' # live_thinking =>
          \E i \in Callers :
             \/ /\ Steps(i) /\ calls[i].pc = "L297_store"
                /\ live_thinking' = BlankThinking
             \/ /\ Steps(i) /\ calls[i].pc = "L83_store"
                /\ live_thinking' =
                      [live_thinking EXCEPT
                         ![StageOf[calls[i].state.workflow_step]] = calls[i].thinking]

\* C24: two calls of reconcile_amounts interleaved on one shared instance
\* corrupt the shared state.  Nothing keeps the second call from beginning
\* while the first is under way; every statement of either call takes the
\* trace from the one field current_trace_id as it stands at that moment and
\* writes its narration to the one live_thinking, so that the records and
\* the seal of one run reach the trace of the other and live_thinking holds
\* narration of both (C24_Witness is such a state).
C24_SharedPointerCorrupts ==
    [](C24_Unguarded /\ C24_PointerSet) /\ [][C24_Pointer /\ C24_Writes]_vars

\* The first call (matching amounts, second 0) has returned while the second
\* call (second 1) is still before its compare stage: the second call's
\* trace holds the second call's parsing record followed by the first
\* call's comparison and verdict records and is sealed with the first
\* call's verdict; live_thinking has the parsing narration of the second
\* and the comparison narration of the first; the first call's own trace
\* has one record and no end_time.
C24_Witness ==
    /\ Done(calls[1]) /\ calls[1].ret.some
    /\ Amounts(calls[1].args) = <<Str(T_500), Str(T_500)>>
    /\ calls[1].state.trace_id = TraceId(0)
    /\ calls[2].pc = "compare_amounts"
    /\ Amounts(calls[2].args) = <<Str(T_500), Str(T_400)>>
    /\ calls[2].state.trace_id = TraceId(1)
    /\ current_trace_id = TraceId(1)
    /\ Len(trace_data[TraceId(1)].workflow_steps) = 3
    /\ trace_data[TraceId(1)].workflow_steps[1].thinking
          = calls[2].state.thinking_log[1].text
    /\ trace_data[TraceId(1)].workflow_steps[2].thinking
          = calls[1].state.thinking_log[2].text
    /\ trace_data[TraceId(1)].workflow_steps[3].thinking
          = calls[1].state.thinking_log[3].text
    /\ trace_data[TraceId(1)].end_time.some
    /\ trace_data[TraceId(1)].result = calls[1].ret
    /\ live_thinking.parsing = calls[2].state.thinking_log[1].text
    /\ live_thinking.parsing # calls[1].state.thinking_log[1].text
    /\ live_thinking.comparison = calls[1].state.thinking_log[2].text
    /\ Len(trace_data[TraceId(0)].workflow_steps) = 1
    /\ ~trace_data[TraceId(0)].end_time.some
=============================================================================
